---- MODULE Spec2Model ----
(***************************************************************************)
(* codeclaw: secret redaction (secrets.py), the tool-input summarizer and  *)
(* the Codex normalizer (parser.py).                                       *)
(*                                                                         *)
(* Offsets are Python offsets (0-based, half open); sequences are 1-based, *)
(* so the Python slice t[a:b] is Slice(t, a, b).                           *)
(***************************************************************************)
EXTENDS Integers, Sequences, FiniteSets, TLC

VARIABLES
    text,        \* redact_text: the argument
    engine,      \* redact_text: the regex engine's view of the text
    redacted,    \* redact_text: the returned (text, count), NoResult before the call
    toolName,    \* _summarize_tool_input: tool_name
    toolInput,   \* _summarize_tool_input: input_data
    summary,     \* _summarize_tool_input: the returned string, NoResult before the call
    stream,      \* _parse_codex_session_file: the entries read from the file so far
    codex,       \* _parse_codex_session_file: the _CodexParseState
    includeThinking,  \* _parse_codex_session_file: include_thinking
    parsed,      \* _parse_codex_session_file: [target, result] once it has returned
    disk,        \* the Codex session files: file name -> entries
    projectIndex,  \* _CODEX_PROJECT_INDEX: project key -> file names
    listing,     \* parse_project_sessions: [key, sessions] of the last call
    lines,       \* _parse_claude_session_file: the lines read from the file so far
    claude,      \* _parse_claude_session_file: its messages, metadata and stats
    claudeThinking,  \* _parse_claude_session_file: include_thinking
    claudeParsed,    \* _parse_claude_session_file: how the call ended, NoResult before
    config,      \* the saved configuration (load_config / save_config)
    run,         \* the last command: its arguments, the configuration before, its outcome
    workers,     \* parallel callers: each one's file, position, parse state and session
    redaction,   \* redactor.py: the engine, the caller's session and what the call returned
    custom,      \* redact_custom_strings: the text, the strings and the returned pair
    entropy,     \* _scan_high_entropy_strings: the text, max_results and the returned list
    jobs         \* tui/jobs.py: the JobManager, its worker thread and the callers

redactVars == <<text, engine, redacted>>

toolVars == <<toolName, toolInput, summary>>

codexVars == <<stream, codex, includeThinking, parsed>>

indexVars == <<disk, projectIndex, listing>>

claudeVars == <<lines, claude, claudeThinking, claudeParsed>>

exportVars == <<config, run>>

restVars == <<workers, redaction, custom, entropy, jobs>>

coreVars == <<redactVars, toolVars, codexVars, indexVars, claudeVars, exportVars>>

vars == <<text, engine, redacted, toolName, toolInput, summary,
          stream, codex, includeThinking, parsed, disk, projectIndex, listing,
          lines, claude, claudeThinking, claudeParsed, config, run,
          workers, redaction, custom, entropy, jobs>>

NoResult == [none |-> TRUE]

Range(s) == {s[i] : i \in 1..Len(s)}

\* t[a:b] for 0 <= a: the end is clamped to the length.
Slice(t, a, b) == SubSeq(t, a + 1, IF b < Len(t) THEN b ELSE Len(t))

(***************************************************************************)
(* secrets.py                                                              *)
(***************************************************************************)

REDACTED == <<"[", "R", "E", "D", "A", "C", "T", "E", "D", "]">>

\* Bounds of the redaction model.
MaxTextLen == 3
MaxMatchesPerDetector == 1

\* Three detectors of SECRET_PATTERNS, in cascade order; the quoted
\* high-entropy detector is the last entry of the cascade.
Detectors == <<"env_secret", "email", "high_entropy">>

\* The characters of a text are pairwise distinct, so that a character of
\* the input can be recognised in the output.
Alphabet == <<"a", "b", "c", "d", "e", "f", "g", "h">>

TextOfLen(n) == SubSeq(Alphabet, 1, n)

\* The regex engine's view of a text: for each detector what finditer yields,
\* the offset where an ALLOWLIST pattern occurs (-1: nowhere), and whether
\* a quoted string of the text passes the mixed-character, entropy and
\* dot-count tests of the high_entropy detector.
SpansOf(n) == { [start |-> s, end |-> e] : s \in 0..(n - 1), e \in 1..n }

\* finditer yields the matches of one pattern left to right, non-overlapping,
\* and none of the patterns matches the empty string.
DetectorMatches(n) ==
    { ms \in UNION { [1..k -> SpansOf(n)] : k \in 0..MaxMatchesPerDetector } :
        /\ \A i \in 1..Len(ms) : ms[i].start < ms[i].end
        /\ \A i \in 1..(Len(ms) - 1) : ms[i].end <= ms[i + 1].start }

Engines(n) ==
    [ matches : [1..Len(Detectors) -> DetectorMatches(n)],
      allowAt : (-1)..(n - 1),
      entropyOk : BOOLEAN ]

\* A scan that has no allowlist.
NeverAllowlisted(eng, m) == FALSE

\* any(allow_pat.search(matched_text) for allow_pat in ALLOWLIST)
Allowlisted(eng, m) == m.start <= eng.allowAt /\ eng.allowAt < m.end

\* The three tests applied to the inner string of a high_entropy match.
LooksLikeSecret(eng, m) == eng.entropyOk

RECURSIVE ScanFrom(_, _)
ScanFrom(eng, d) ==
    IF d > Len(Detectors) THEN <<>>
    ELSE LET kept == SelectSeq(eng.matches[d], LAMBDA m :
                        /\ ~Allowlisted(eng, m)
                        /\ (Detectors[d] = "high_entropy" => LooksLikeSecret(eng, m)))
         IN  [i \in 1..Len(kept) |->
                 [type |-> Detectors[d], start |-> kept[i].start, end |-> kept[i].end]]
             \o ScanFrom(eng, d + 1)

\* A cascade that has lost its first detector.
ScanWithoutFirst(t, eng) == IF t = <<>> THEN <<>> ELSE ScanFrom(eng, 2)

scan_text(t, eng) == IF t = <<>> THEN <<>> ELSE ScanFrom(eng, 1)

\* The sort without reverse=True: ascending starts.
RECURSIVE InsertByStartAsc(_, _)
InsertByStartAsc(f, s) ==
    IF s = <<>> THEN <<f>>
    ELSE IF Head(s).start <= f.start
         THEN <<Head(s)>> \o InsertByStartAsc(f, Tail(s))
         ELSE <<f>> \o s

\* findings.sort(key=start, reverse=True): stable, equal starts keep their order.
RECURSIVE InsertByStartDesc(_, _)
InsertByStartDesc(f, s) ==
    IF s = <<>> THEN <<f>>
    ELSE IF Head(s).start >= f.start
         THEN <<Head(s)>> \o InsertByStartDesc(f, Tail(s))
         ELSE <<f>> \o s

RECURSIVE SortByStartDesc(_)
SortByStartDesc(fs) ==
    IF fs = <<>> THEN <<>>
    ELSE InsertByStartDesc(fs[Len(fs)], SortByStartDesc(SubSeq(fs, 1, Len(fs) - 1)))

KeepsLaterStart(deduped, f) ==
    deduped = <<>> \/ f.end <= deduped[Len(deduped)].start

RECURSIVE DedupeFrom(_, _)
DedupeFrom(deduped, fs) ==
    IF fs = <<>> THEN deduped
    ELSE DedupeFrom(IF KeepsLaterStart(deduped, Head(fs))
                    THEN Append(deduped, Head(fs)) ELSE deduped,
                    Tail(fs))

Dedupe(findings) == DedupeFrom(<<>>, SortByStartDesc(findings))

\* "".join(reversed(parts)) for the parts collected from the right.
RECURSIVE Assemble(_, _, _)
Assemble(t, deduped, last_pos) ==
    IF deduped = <<>> THEN Slice(t, 0, last_pos)
    ELSE Assemble(t, Tail(deduped), Head(deduped).start)
            \o REDACTED \o Slice(t, Head(deduped).end, last_pos)

redact_text(t, eng) ==
    LET findings == scan_text(t, eng)
        deduped  == Dedupe(findings)
    IN  IF t = <<>> \/ findings = <<>>
        THEN [text |-> t, count |-> 0]
        ELSE [text |-> Assemble(t, deduped, Len(t)), count |-> Len(deduped)]

IdleRedact == text = <<>> /\ engine = NoResult /\ redacted = NoResult

IdleTool == toolName = "" /\ toolInput = NoResult /\ summary = NoResult

IdleCodex ==
    stream = <<>> /\ codex = NoResult /\ includeThinking = FALSE /\ parsed = NoResult

IdleIndex == disk = NoResult /\ projectIndex = NoResult /\ listing = NoResult

IdleClaude ==
    lines = <<>> /\ claude = NoResult /\ claudeThinking = FALSE /\ claudeParsed = NoResult

IdleExport == config = NoResult /\ run = NoResult

IdleCore ==
    /\ IdleRedact
    /\ IdleTool
    /\ IdleCodex
    /\ IdleIndex
    /\ IdleClaude
    /\ IdleExport

IdleRest ==
    /\ workers = NoResult
    /\ redaction = NoResult
    /\ custom = NoResult
    /\ entropy = NoResult
    /\ jobs = NoResult

InitRedact ==
    /\ IdleRest
    /\ IdleExport
    /\ IdleClaude
    /\ IdleTool
    /\ IdleCodex
    /\ IdleIndex
    /\ \E n \in 0..MaxTextLen :
          /\ text = TextOfLen(n)
          /\ engine \in Engines(n)
    /\ redacted = NoResult

RedactText ==
    /\ redacted = NoResult
    /\ redacted' = redact_text(text, engine)
    /\ UNCHANGED <<text, engine, toolVars, codexVars, indexVars, claudeVars, exportVars, restVars>>

NextRedact == RedactText

SpecRedact == InitRedact /\ [][NextRedact]_vars

(***************************************************************************)
(* Properties of redact_text                                               *)
(***************************************************************************)

Findings == scan_text(text, engine)

CountOf(c, t) == Cardinality({i \in 1..Len(t) : t[i] = c})

Overlapping(f, g) == f.start < g.start /\ g.start < f.end

\* C1: after redact_text no character of the span of any finding that
\* survived the allowlist and entropy filters is left in the output, also
\* when findings of different detectors overlap.
C1_NoSecretLeft ==
    redacted # NoResult =>
        \A k \in 1..Len(Findings) :
            \A i \in (Findings[k].start + 1)..Findings[k].end :
                text[i] \notin Range(redacted.text)

\* C2: findings are walked in descending start order and one is kept only
\* if it ends at or before the start of the most recently kept one. The
\* rightmost-starting finding is always replaced; of two overlapping findings
\* A (earlier start) and B only B is replaced, by one marker at B's place,
\* with count 1; two findings that merely touch are both replaced; the
\* count is the number of markers in the output.
C2_OverlapKeepsLater ==
    redacted # NoResult =>
        /\ redacted.count = CountOf("[", redacted.text)
        /\ \A k \in 1..Len(Findings) :
              (/\ \A j \in 1..Len(Findings) : Findings[j].start <= Findings[k].start
               /\ \A j \in 1..(k - 1) : Findings[j].start < Findings[k].start)
                  => \A i \in (Findings[k].start + 1)..Len(text) :
                         text[i] \in Range(redacted.text) <=> i > Findings[k].end
        /\ Len(Findings) = 2 =>
              \A a, b \in 1..2 :
                  /\ Overlapping(Findings[a], Findings[b]) =>
                        /\ redacted.text = Slice(text, 0, Findings[b].start) \o REDACTED
                                               \o Slice(text, Findings[b].end, Len(text))
                        /\ redacted.count = 1
                  /\ Findings[a].end <= Findings[b].start =>
                        /\ redacted.text = Slice(text, 0, Findings[a].start) \o REDACTED
                                               \o Slice(text, Findings[a].end, Findings[b].start)
                                               \o REDACTED
                                               \o Slice(text, Findings[b].end, Len(text))
                        /\ redacted.count = 2

C2_Witness ==
    /\ redacted # NoResult
    /\ Len(Findings) = 2
    /\ Overlapping(Findings[1], Findings[2])
    /\ Findings[1].type # Findings[2].type
    /\ redacted.count = 1

\* What finditer yields for one detector, before any filter.
RawMatchesOf(d) ==
    { [type |-> Detectors[d], start |-> engine.matches[d][i].start,
       end |-> engine.matches[d][i].end] : i \in 1..Len(engine.matches[d]) }

AllRawMatches == UNION { RawMatchesOf(d) : d \in 1..Len(Detectors) }

\* The matched text of a raw match.
MatchedText(m) == Slice(text, m.start, m.end)

Contains(t, part) ==
    \E a \in 0..(Len(t) - Len(part)) : Slice(t, a, a + Len(part)) = part

\* An allowlist pattern occurs in the matched text.
HitsAllowlist(m) == m.start <= engine.allowAt /\ engine.allowAt < m.end

\* The match is one that the filters of scan_text let through.
PassesFilters(m) ==
    /\ ~HitsAllowlist(m)
    /\ m.type = "high_entropy" => engine.entropyOk

Redacts(m) ==
    /\ redacted.count >= 1
    /\ ~Contains(redacted.text, MatchedText(m))

\* C19 as stated: an input in which exactly one detector matches one
\* instance of its secret shape is returned with count >= 1 and without
\* the matched text, for each detector.
C19_EveryInstanceRedacted ==
    redacted # NoResult =>
        \A m \in AllRawMatches : AllRawMatches = {m} => Redacts(m)

\* C19: for each detector of the cascade, every match of it that no
\* allowlist pattern hits and that, for high_entropy, passes the entropy
\* tests gives count >= 1 and an output that does not contain the matched
\* text, whatever else the cascade finds in the input.
C19_SecretCoverage ==
    redacted # NoResult =>
        \A m \in AllRawMatches : PassesFilters(m) => Redacts(m)

\* The only match is one of the high_entropy detector, which passes the
\* tests, inside a longer text.
C19_Witness ==
    /\ redacted # NoResult
    /\ \E m \in AllRawMatches :
          /\ AllRawMatches = {m}
          /\ m.type = "high_entropy"
          /\ PassesFilters(m)
          /\ m.end - m.start < Len(text)
          /\ redacted.count = 1
          /\ redacted.text = Slice(text, 0, m.start) \o REDACTED
                                 \o Slice(text, m.end, Len(text))

Untouched(m) ==
    \A k \in 1..Len(Findings) :
        Findings[k].end <= m.start \/ m.end <= Findings[k].start

MAX_TOOL_INPUT_LENGTH == 300

\* Bounds of the summarizer model: the length of the secret placed in a
\* field, which is also the least length the detector matches.
SecretLen == 30

FieldLens == {0, 40, 300, 400}

SecretStarts == {0, 290, 295}

\* A field value: plain characters "x" (the first one "u", a character of
\* the user name, which the anonymizer rewrites) and one secret of "s"
\* characters at secretAt (-1: no secret).
FieldText(len, secretAt) ==
    [i \in 1..len |->
        IF secretAt >= 0 /\ secretAt < i /\ i <= secretAt + SecretLen THEN "s"
        ELSE IF i = 1 THEN "u" ELSE "x"]

FieldValues ==
    UNION { { FieldText(len, at) :
                at \in {a \in SecretStarts \cup {-1} : a + SecretLen <= len} } :
            len \in FieldLens }

\* What the detectors find in such a text: the run of secret characters, if
\* it is long enough for the pattern's quantifier.
EngineOf(t) ==
    LET S == {i \in 1..Len(t) : t[i] = "s"}
        lo == CHOOSE i \in S : \A j \in S : i <= j
        hi == CHOOSE i \in S : \A j \in S : i >= j
    IN  [ matches |-> [d \in 1..Len(Detectors) |->
                          IF d = 1 /\ Cardinality(S) >= SecretLen
                          THEN <<[start |-> lo - 1, end |-> hi]>> ELSE <<>>],
          allowAt |-> -1,
          entropyOk |-> TRUE ]

Redact(t) == redact_text(t, EngineOf(t)).text

\* The anonymizer capability: deterministic, rewrites the user name.
anonymize_text(t) == [i \in 1..Len(t) |-> IF t[i] = "u" THEN "h" ELSE t[i]]

anonymize_path(t) == [i \in 1..Len(t) |-> IF t[i] = "u" THEN "h" ELSE t[i]]

_redact_and_truncate(t) == anonymize_text(Slice(Redact(t), 0, MAX_TOOL_INPUT_LENGTH))

ToolNames ==
    {"None", "Read", "Edit", "Write", "Bash", "bash", "Grep", "Glob", "Task",
     "WebSearch", "WebFetch", "CustomTool"}

\* tool_name.lower() if tool_name else ""
Lower(name) ==
    CASE name = "None" -> ""
      [] name = "Read" -> "read"
      [] name = "Edit" -> "edit"
      [] name = "Write" -> "write"
      [] name = "Bash" -> "bash"
      [] name = "Grep" -> "grep"
      [] name = "Glob" -> "glob"
      [] name = "Task" -> "task"
      [] name = "WebSearch" -> "websearch"
      [] name = "WebFetch" -> "webfetch"
      [] name = "CustomTool" -> "customtool"
      [] OTHER -> name

Keys == {"file_path", "content", "command", "pattern", "path", "prompt", "query", "url", "foo"}

KeyChars(k) ==
    CASE k = "file_path" -> <<"f", "i", "l", "e", "_", "p", "a", "t", "h">>
      [] k = "content" -> <<"c", "o", "n", "t", "e", "n", "t">>
      [] k = "command" -> <<"c", "o", "m", "m", "a", "n", "d">>
      [] k = "pattern" -> <<"p", "a", "t", "t", "e", "r", "n">>
      [] k = "path" -> <<"p", "a", "t", "h">>
      [] k = "prompt" -> <<"p", "r", "o", "m", "p", "t">>
      [] k = "query" -> <<"q", "u", "e", "r", "y">>
      [] k = "url" -> <<"u", "r", "l">>
      [] OTHER -> <<"f", "o", "o">>

\* input_data: a dictionary with one key, or a string.
ToolInputs ==
    { [isDict |-> TRUE, key |-> k, value |-> v] : k \in Keys, v \in FieldValues }
        \cup { [isDict |-> FALSE, key |-> "", value |-> v] : v \in FieldValues }

\* d.get(k, "")
Get(d, k) == IF d.key = k THEN d.value ELSE <<>>

\* str(input_data): a string is itself, a dictionary prints as {'key': 'value'}.
Str(d) ==
    IF d.isDict
    THEN <<"{", "'">> \o KeyChars(d.key) \o <<"'", ":", " ", "'">> \o d.value \o <<"'", "}">>
    ELSE d.value

DigitChars == <<"0", "1", "2", "3", "4", "5", "6", "7", "8", "9">>

RECURSIVE Decimal(_)
Decimal(n) ==
    IF n < 10 THEN <<DigitChars[n + 1]>>
    ELSE Decimal(n \div 10) \o <<DigitChars[(n % 10) + 1]>>

PatternEq == <<"p", "a", "t", "t", "e", "r", "n", "=">>

PathEq == <<" ", "p", "a", "t", "h", "=">>

_summarize_file_path(d) == anonymize_path(Get(d, "file_path"))

_summarize_write(d) ==
    anonymize_path(Get(d, "file_path")) \o <<" ", "(">> \o Decimal(Len(Get(d, "content")))
        \o <<" ", "c", "h", "a", "r", "s", ")">>

_summarize_bash(d) == _redact_and_truncate(Get(d, "command"))

_summarize_grep(d) ==
    PatternEq \o anonymize_text(Redact(Get(d, "pattern")))
        \o PathEq \o anonymize_path(Get(d, "path"))

_summarize_glob(d) ==
    PatternEq \o anonymize_text(Get(d, "pattern"))
        \o PathEq \o anonymize_path(Get(d, "path"))

_summarize_task(d) == _redact_and_truncate(Get(d, "prompt"))

_summarize_websearch(d) == Get(d, "query")

_summarize_webfetch(d) == Get(d, "url")

Summarizers ==
    {"read", "edit", "write", "bash", "grep", "glob", "task", "websearch", "webfetch"}

_summarize_tool_input(tool_name, input_data) ==
    LET name == Lower(tool_name)
    IN  IF ~input_data.isDict THEN _redact_and_truncate(Str(input_data))
        ELSE CASE name \in {"read", "edit"} -> _summarize_file_path(input_data)
               [] name = "write" -> _summarize_write(input_data)
               [] name = "bash" -> _summarize_bash(input_data)
               [] name = "grep" -> _summarize_grep(input_data)
               [] name = "glob" -> _summarize_glob(input_data)
               [] name = "task" -> _summarize_task(input_data)
               [] name = "websearch" -> _summarize_websearch(input_data)
               [] name = "webfetch" -> _summarize_webfetch(input_data)
               [] OTHER -> _redact_and_truncate(Str(input_data))

InitTool ==
    /\ IdleRest
    /\ IdleExport
    /\ IdleClaude
    /\ IdleRedact
    /\ IdleCodex
    /\ IdleIndex
    /\ toolName \in ToolNames
    /\ toolInput \in ToolInputs
    /\ summary = NoResult

SummarizeToolInput ==
    /\ summary = NoResult
    /\ summary' = _summarize_tool_input(toolName, toolInput)
    /\ UNCHANGED <<toolName, toolInput, redactVars, codexVars, indexVars, claudeVars, exportVars, restVars>>

NextTool == SummarizeToolInput

SpecTool == InitTool /\ [][NextTool]_vars

(***************************************************************************)
(* Properties of the tool-input summarizer                                 *)
(***************************************************************************)

\* The field a tool's summarizer redacts and truncates: the command, the
\* pattern, the prompt, or on the default path the whole printed input.
RawField ==
    LET name == Lower(toolName)
    IN  IF ~toolInput.isDict THEN Str(toolInput)
        ELSE CASE name = "bash" -> Get(toolInput, "command")
               [] name \in {"grep", "glob"} -> Get(toolInput, "pattern")
               [] name = "task" -> Get(toolInput, "prompt")
               [] name \in Summarizers -> <<>>
               [] OTHER -> Str(toolInput)

HasMarker(t) ==
    \E i \in 0..(Len(t) - Len(REDACTED)) : Slice(t, i, i + Len(REDACTED)) = REDACTED

\* C3: for command-, pattern- and prompt-bearing tools and on the default
\* path the raw field is redacted as a whole before the cut at 300
\* characters: the summary has at most 300 characters and no character of a
\* detectable secret of the field, and for a 400-character field with the
\* secret at offsets 290-320 it contains the marker.
C3_RedactBeforeTruncate ==
    (summary # NoResult /\ "s" \in Range(RawField)) =>
        /\ Len(summary) <= MAX_TOOL_INPUT_LENGTH
        /\ "s" \notin Range(summary)
        /\ (Len(RawField) = 400 /\ RawField[291] = "s" /\ RawField[290] # "s")
              => HasMarker(summary)

\* C4: every summary has at most 300 characters, whatever the tool and input.
C4_SummaryBounded ==
    summary # NoResult => Len(summary) <= MAX_TOOL_INPUT_LENGTH

(***************************************************************************)
(* parser.py: the Codex normalizer                                         *)
(*                                                                         *)
(* Texts and working directories are character sequences; an absent        *)
(* working directory is the empty sequence. Other optional values are      *)
(* strings, with "None" for None. A message is a record that has exactly   *)
(* the keys the Python dict has.                                           *)
(***************************************************************************)

\* Bound of the Codex model: the number of entries of a session file.
MaxEvents == 3

None == "None"

Absent == [absent |-> TRUE]

UNKNOWN_CODEX_CWD == <<"<", "u", "n", "k", "n", "o", "w", "n", "-", "c", "w", "d", ">">>

NoCwd == <<>>

CwdA == <<"/", "a">>

CwdB == <<"/", "b">>

FileStem == "rollout-1"

\* The timestamp of the k-th entry of the file (already a string, which
\* _normalize_timestamp returns unchanged).
Timestamps == <<"t1", "t2", "t3", "t4", "t5", "t6", "t7", "t8">>

Whitespace == {" ", "\n", "\t"}

RECURSIVE Strip(_)
Strip(t) ==
    IF t = <<>> THEN t
    ELSE IF Head(t) \in Whitespace THEN Strip(Tail(t))
    ELSE IF t[Len(t)] \in Whitespace THEN Strip(SubSeq(t, 1, Len(t) - 1))
    ELSE t

\* isinstance(x, str) and x.strip()
NonBlank(t) == Strip(t) # <<>>

\* "\n\n".join(parts)
RECURSIVE JoinParagraphs(_)
JoinParagraphs(parts) ==
    IF parts = <<>> THEN <<>>
    ELSE IF Len(parts) = 1 THEN parts[1]
    ELSE parts[1] \o <<"\n", "\n">> \o JoinParagraphs(Tail(parts))

_make_stats ==
    [user_messages |-> 0, assistant_messages |-> 0, tool_uses |-> 0,
     input_tokens |-> 0, output_tokens |-> 0]

NewCodexParseState ==
    [ messages |-> <<>>,
      metadata |-> [session_id |-> FileStem, cwd |-> NoCwd, git_branch |-> None,
                    model |-> None, start_time |-> None, end_time |-> None,
                    model_provider |-> None],
      stats |-> _make_stats,
      pending_tool_uses |-> <<>>,
      pending_thinking |-> <<>>,
      raw_cwd |-> UNKNOWN_CODEX_CWD,
      max_input_tokens |-> 0,
      max_output_tokens |-> 0 ]

(* The entries a session file may hold at position k. *)

SessionMetaEntries(k) ==
    { [type |-> "session_meta", timestamp |-> Timestamps[k], cwd |-> c, id |-> "session-1",
       model_provider |-> mp, branch |-> "main"] :
        c \in {NoCwd, CwdA, CwdB}, mp \in {None, "openai"} }

TurnContextEntries(k) ==
    { [type |-> "turn_context", timestamp |-> Timestamps[k], cwd |-> c, model |-> m] :
        c \in {NoCwd, CwdB}, m \in {None, "gpt-5.3-codex"} }

\* A function call carries its decoded arguments; the k-th entry's differ
\* from every other entry's.
CallArguments(k) == [isDict |-> TRUE, key |-> "foo", value |-> <<"c", DigitChars[k + 1]>>]

ResponseItemEntries(k) ==
    { [type |-> "response_item", timestamp |-> Timestamps[k], item |-> "function_call",
       name |-> "exec_command", arguments |-> CallArguments(k)],
      [type |-> "response_item", timestamp |-> Timestamps[k], item |-> "reasoning",
       summary |-> <<<<" ", "r", DigitChars[k + 1]>>>>] }

TokenUsages ==
    { [input_tokens |-> 10, cached_input_tokens |-> 0, output_tokens |-> 5],
      [input_tokens |-> 50, output_tokens |-> 2],
      [input_tokens |-> 30, cached_input_tokens |-> 5, output_tokens |-> 9] }

TokenCountEntries(k) ==
    { [type |-> "event_msg", timestamp |-> Timestamps[k], event |-> "token_count",
       usage |-> u] : u \in TokenUsages }

AgentReasoningEntries(k) ==
    { [type |-> "event_msg", timestamp |-> Timestamps[k], event |-> "agent_reasoning",
       text |-> <<"u", "r", DigitChars[k + 1]>>] }

UserMessageEntries(k) ==
    { [type |-> "event_msg", timestamp |-> Timestamps[k], event |-> "user_message",
       message |-> m] : m \in {<<" ">>, <<" ", "u", "q", " ">>} }

AgentMessageEntries(k) ==
    { [type |-> "event_msg", timestamp |-> Timestamps[k], event |-> "agent_message",
       message |-> m] : m \in {<<>>, <<"o", "k">>} }

OtherEntries(k) == { [type |-> "compacted", timestamp |-> Timestamps[k]] }

\* Both bounds overwritten by every timestamp.
UpdateBothBounds(metadata, timestamp) ==
    IF timestamp = None THEN metadata
    ELSE [metadata EXCEPT !.start_time = timestamp, !.end_time = timestamp]

_update_time_bounds(metadata, timestamp) ==
    IF timestamp = None THEN metadata
    ELSE [metadata EXCEPT !.start_time = IF @ = None THEN timestamp ELSE @,
                          !.end_time = timestamp]

ToolUsesOf(msg) == IF "tool_uses" \in DOMAIN msg THEN msg.tool_uses ELSE <<>>

\* The keys without the buffered tool calls.
PendingKeysWithoutToolUses(st, withThinking) ==
    IF st.pending_thinking # <<>> /\ withThinking
    THEN [thinking |-> JoinParagraphs(st.pending_thinking)] ELSE <<>>

\* The thinking and tool_uses keys a synthesized assistant message gets.
PendingKeys(st, withThinking) ==
    (IF st.pending_thinking # <<>> /\ withThinking
     THEN [thinking |-> JoinParagraphs(st.pending_thinking)] ELSE <<>>)
    @@ (IF st.pending_tool_uses # <<>>
        THEN [tool_uses |-> st.pending_tool_uses] ELSE <<>>)

\* An append that leaves the tool-use counter alone.
AppendAssistantUncounted(st, msg, timestamp) ==
    [st EXCEPT !.messages = Append(@, msg),
               !.stats.assistant_messages = @ + 1,
               !.metadata = _update_time_bounds(@, timestamp)]

AppendAssistant(st, msg, timestamp) ==
    [st EXCEPT !.messages = Append(@, msg),
               !.stats.assistant_messages = @ + 1,
               !.stats.tool_uses = @ + Len(ToolUsesOf(msg)),
               !.metadata = _update_time_bounds(@, timestamp)]

ClearPending(st) == [st EXCEPT !.pending_tool_uses = <<>>, !.pending_thinking = <<>>]

_flush_codex_pending(st, timestamp) ==
    IF st.pending_tool_uses = <<>> /\ st.pending_thinking = <<>> THEN st
    ELSE ClearPending(AppendAssistant(st,
            [role |-> "assistant", timestamp |-> timestamp] @@ PendingKeys(st, TRUE),
            timestamp))

_handle_codex_session_meta(st, entry) ==
    LET hasCwd == NonBlank(entry.cwd)
    IN  [st EXCEPT
            !.raw_cwd = IF hasCwd THEN entry.cwd ELSE @,
            !.metadata.cwd = IF hasCwd /\ @ = NoCwd THEN anonymize_path(entry.cwd) ELSE @,
            !.metadata.session_id = IF @ = FileStem THEN entry.id ELSE @,
            !.metadata.model_provider = IF @ = None THEN entry.model_provider ELSE @,
            !.metadata.git_branch = IF @ = None THEN entry.branch ELSE @]

_handle_codex_turn_context(st, entry) ==
    LET hasCwd == NonBlank(entry.cwd)
    IN  [st EXCEPT
            !.raw_cwd = IF hasCwd THEN entry.cwd ELSE @,
            !.metadata.cwd = IF hasCwd /\ @ = NoCwd THEN anonymize_path(entry.cwd) ELSE @,
            !.metadata.model = IF @ = None /\ entry.model # None THEN entry.model ELSE @]

RECURSIVE AppendThinking(_, _)
AppendThinking(pending, summaries) ==
    IF summaries = <<>> THEN pending
    ELSE AppendThinking(
            IF NonBlank(Head(summaries))
            THEN Append(pending, anonymize_text(Strip(Head(summaries)))) ELSE pending,
            Tail(summaries))

\* A handler whose buffer holds the latest tool call only.
ResponseItemKeepsLastCall(st, entry, include_thinking) ==
    IF entry.item = "function_call"
    THEN [st EXCEPT !.pending_tool_uses =
            <<[tool |-> entry.name,
               input |-> _summarize_tool_input(entry.name, entry.arguments)]>>]
    ELSE IF entry.item = "reasoning" /\ include_thinking
    THEN [st EXCEPT !.pending_thinking = AppendThinking(@, entry.summary)]
    ELSE st

_handle_codex_response_item(st, entry, include_thinking) ==
    IF entry.item = "function_call"
    THEN [st EXCEPT !.pending_tool_uses = Append(@,
            [tool |-> entry.name,
             input |-> _summarize_tool_input(entry.name, entry.arguments)])]
    ELSE IF entry.item = "reasoning" /\ include_thinking
    THEN [st EXCEPT !.pending_thinking = AppendThinking(@, entry.summary)]
    ELSE st

\* _safe_int of total_usage.get(key)
SafeInt(usage, key) == IF key \in DOMAIN usage THEN usage[key] ELSE 0

Max(a, b) == IF a >= b THEN a ELSE b

SumTokens(st, entry) ==
    [st EXCEPT
        !.max_input_tokens = @ + SafeInt(entry.usage, "input_tokens")
                               + SafeInt(entry.usage, "cached_input_tokens"),
        !.max_output_tokens = @ + SafeInt(entry.usage, "output_tokens")]

_handle_codex_token_count(st, entry) ==
    [st EXCEPT
        !.max_input_tokens = Max(@, SafeInt(entry.usage, "input_tokens")
                                      + SafeInt(entry.usage, "cached_input_tokens")),
        !.max_output_tokens = Max(@, SafeInt(entry.usage, "output_tokens"))]

HandleAgentReasoning(st, entry, include_thinking) ==
    IF include_thinking /\ NonBlank(entry.text)
    THEN [st EXCEPT !.pending_thinking = Append(@, anonymize_text(Strip(entry.text)))]
    ELSE st

\* The user message appended before the pending state is flushed.
UserMessageThenFlush(st, entry) ==
    LET appended ==
            IF NonBlank(entry.message)
            THEN [st EXCEPT
                    !.messages = Append(@, [role |-> "user",
                                            content |-> anonymize_text(Strip(entry.message)),
                                            timestamp |-> entry.timestamp]),
                    !.stats.user_messages = @ + 1,
                    !.metadata = _update_time_bounds(@, entry.timestamp)]
            ELSE st
    IN  _flush_codex_pending(appended, entry.timestamp)

_handle_codex_user_message(st, entry) ==
    LET flushed == _flush_codex_pending(st, entry.timestamp)
    IN  IF NonBlank(entry.message)
        THEN [flushed EXCEPT
                !.messages = Append(@, [role |-> "user",
                                        content |-> anonymize_text(Strip(entry.message)),
                                        timestamp |-> entry.timestamp]),
                !.stats.user_messages = @ + 1,
                !.metadata = _update_time_bounds(@, entry.timestamp)]
        ELSE flushed

\* The pending queues cleared only when a message was appended.
AgentMessageClearsOnAppend(st, entry, include_thinking) ==
    LET msg == [role |-> "assistant"]
                 @@ (IF NonBlank(entry.message)
                     THEN [content |-> anonymize_text(Strip(entry.message))] ELSE <<>>)
                 @@ PendingKeys(st, include_thinking)
    IN  IF Cardinality(DOMAIN msg) > 1
        THEN ClearPending(
                AppendAssistant(st, msg @@ [timestamp |-> entry.timestamp], entry.timestamp))
        ELSE [st EXCEPT !.messages = Append(@, msg @@ [timestamp |-> entry.timestamp])]

_handle_codex_agent_message(st, entry, include_thinking) ==
    LET msg == [role |-> "assistant"]
                 @@ (IF NonBlank(entry.message)
                     THEN [content |-> anonymize_text(Strip(entry.message))] ELSE <<>>)
                 @@ PendingKeys(st, include_thinking)
    IN  ClearPending(
            IF Cardinality(DOMAIN msg) > 1
            THEN AppendAssistant(st, msg @@ [timestamp |-> entry.timestamp], entry.timestamp)
            ELSE st)

\* The result built without the check for an empty message list.
MakeSessionResultAlways(metadata, messages, stats) ==
    [session_id |-> metadata.session_id, model |-> metadata.model,
     git_branch |-> metadata.git_branch, start_time |-> metadata.start_time,
     end_time |-> metadata.end_time, messages |-> messages, stats |-> stats]

_make_session_result(metadata, messages, stats) ==
    IF messages = <<>> THEN Absent
    ELSE [session_id |-> metadata.session_id, model |-> metadata.model,
          git_branch |-> metadata.git_branch, start_time |-> metadata.start_time,
          end_time |-> metadata.end_time, messages |-> messages, stats |-> stats]

ProviderCodex(provider) == IF provider = "openai" THEN "openai-codex" ELSE "codex-unknown"

\* _parse_codex_session_file after its loop: the state it ends in and what
\* it returns for target_cwd.
WithTokenStats(st) ==
    [st EXCEPT !.stats.input_tokens = st.max_input_tokens,
               !.stats.output_tokens = st.max_output_tokens]

\* No placeholder synthesized.
WithObservedModel(st) == st

WithModel(st) ==
    [st EXCEPT !.metadata.model =
        IF @ # None THEN @
        ELSE IF st.metadata.model_provider # None
             THEN ProviderCodex(st.metadata.model_provider) ELSE "codex-unknown"]

AnyCwdAccepted(st, target_cwd) == TRUE

CwdAccepted(st, target_cwd) == st.raw_cwd = target_cwd

\* The end of the stream without the final flush.
EndStateNoFlush(st, target_cwd) == WithModel(WithTokenStats(st))

EndState(st, target_cwd) ==
    IF ~CwdAccepted(WithTokenStats(st), target_cwd) THEN WithTokenStats(st)
    ELSE WithModel(_flush_codex_pending(WithTokenStats(st), st.metadata.end_time))

EndResult(st, target_cwd) ==
    IF ~CwdAccepted(WithTokenStats(st), target_cwd) THEN Absent
    ELSE LET e == EndState(st, target_cwd)
         IN  _make_session_result(e.metadata, e.messages, e.stats)

TargetCwds == {CwdA, CwdB, UNKNOWN_CODEX_CWD}

InitCodex ==
    /\ IdleRest
    /\ IdleExport
    /\ IdleClaude
    /\ IdleRedact
    /\ IdleTool
    /\ IdleIndex
    /\ stream = <<>>
    /\ codex = NewCodexParseState
    /\ includeThinking \in BOOLEAN
    /\ parsed = NoResult

Reading == parsed = NoResult /\ Len(stream) < MaxEvents

Read(entry, st) ==
    /\ stream' = Append(stream, entry)
    /\ codex' = st
    /\ UNCHANGED <<includeThinking, parsed, redactVars, toolVars, indexVars, claudeVars, exportVars, restVars>>

ReadSessionMeta ==
    /\ Reading
    /\ \E entry \in SessionMetaEntries(Len(stream) + 1) :
          Read(entry, _handle_codex_session_meta(codex, entry))

ReadTurnContext ==
    /\ Reading
    /\ \E entry \in TurnContextEntries(Len(stream) + 1) :
          Read(entry, _handle_codex_turn_context(codex, entry))

ReadResponseItem ==
    /\ Reading
    /\ \E entry \in ResponseItemEntries(Len(stream) + 1) :
          Read(entry, _handle_codex_response_item(codex, entry, includeThinking))

ReadTokenCount ==
    /\ Reading
    /\ \E entry \in TokenCountEntries(Len(stream) + 1) :
          Read(entry, _handle_codex_token_count(codex, entry))

ReadAgentReasoning ==
    /\ Reading
    /\ \E entry \in AgentReasoningEntries(Len(stream) + 1) :
          Read(entry, HandleAgentReasoning(codex, entry, includeThinking))

ReadUserMessage ==
    /\ Reading
    /\ \E entry \in UserMessageEntries(Len(stream) + 1) :
          Read(entry, _handle_codex_user_message(codex, entry))

ReadAgentMessage ==
    /\ Reading
    /\ \E entry \in AgentMessageEntries(Len(stream) + 1) :
          Read(entry, _handle_codex_agent_message(codex, entry, includeThinking))

ReadOther ==
    /\ Reading
    /\ \E entry \in OtherEntries(Len(stream) + 1) : Read(entry, codex)

\* except OSError: return None
ReadFails ==
    /\ parsed = NoResult
    /\ \E t \in TargetCwds : parsed' = [target |-> t, ioError |-> TRUE, result |-> Absent]
    /\ UNCHANGED <<stream, codex, includeThinking, redactVars, toolVars, indexVars, claudeVars, exportVars, restVars>>

EndOfStream ==
    /\ parsed = NoResult
    /\ \E t \in TargetCwds :
          /\ codex' = EndState(codex, t)
          /\ parsed' = [target |-> t, ioError |-> FALSE, result |-> EndResult(codex, t)]
    /\ UNCHANGED <<stream, includeThinking, redactVars, toolVars, indexVars, claudeVars, exportVars, restVars>>

NextCodex ==
    \/ ReadSessionMeta
    \/ ReadTurnContext
    \/ ReadResponseItem
    \/ ReadTokenCount
    \/ ReadAgentReasoning
    \/ ReadUserMessage
    \/ ReadAgentMessage
    \/ ReadOther
    \/ ReadFails
    \/ EndOfStream

SpecCodex == InitCodex /\ [][NextCodex]_vars

(***************************************************************************)
(* Properties of the Codex normalizer                                      *)
(***************************************************************************)

Returned == parsed # NoResult /\ parsed.result # Absent

IsEvent(e, kind) == e.type = "event_msg" /\ e.event = kind

IsItem(e, kind) == e.type = "response_item" /\ e.item = kind

Positions(kind) == {i \in 1..Len(stream) : IsEvent(stream[i], kind)}

Calls == {i \in 1..Len(stream) : IsItem(stream[i], "function_call")}

MaxOf(S) == IF S = {} THEN 0 ELSE CHOOSE m \in S : \A x \in S : m >= x

Field(u, k) == IF k \in DOMAIN u THEN u[k] ELSE 0

InputTotals ==
    { Field(stream[i].usage, "input_tokens") + Field(stream[i].usage, "cached_input_tokens") :
        i \in Positions("token_count") }

OutputTotals == { Field(stream[i].usage, "output_tokens") : i \in Positions("token_count") }

\* C5: whatever token_count events were read, in whatever order, the running
\* input total is the maximum of input + cached input over them and the
\* running output total the maximum output (0 when there was none), never a
\* sum; a returned session's stats carry these maxima.
C5_TokenMaxima ==
    /\ codex.max_input_tokens = MaxOf(InputTotals)
    /\ codex.max_output_tokens = MaxOf(OutputTotals)
    /\ Returned =>
          /\ parsed.result.stats.input_tokens = MaxOf(InputTotals)
          /\ parsed.result.stats.output_tokens = MaxOf(OutputTotals)

\* Totals 50 and then 10: the session reports 50.
C5_Witness ==
    /\ Returned
    /\ \E i, j \in Positions("token_count") :
          /\ i < j
          /\ stream[i].usage.input_tokens = 50
          /\ stream[j].usage.input_tokens = 10
    /\ parsed.result.stats.input_tokens = 50

\* The tool-use entry the function call at position i of the stream yields.
ToolUseAt(i) ==
    [tool |-> stream[i].name,
     input |-> _summarize_tool_input(stream[i].name, stream[i].arguments)]

\* The thinking fragments the entry at position i yields.
FragmentsAt(i) ==
    IF ~includeThinking THEN {}
    ELSE IF IsItem(stream[i], "reasoning")
    THEN {anonymize_text(Strip(stream[i].summary[k])) : k \in 1..Len(stream[i].summary)}
    ELSE IF IsEvent(stream[i], "agent_reasoning")
    THEN {anonymize_text(Strip(stream[i].text))}
    ELSE {}

ThinkingOf(msg) == IF "thinking" \in DOMAIN msg THEN msg.thinking ELSE <<>>

\* The position of the entry a message's timestamp comes from.
PositionOf(msg) == CHOOSE p \in 1..Len(Timestamps) : Timestamps[p] = msg.timestamp

Carries(msg, i) ==
    /\ msg.role = "assistant"
    /\ i \in Calls => ToolUseAt(i) \in Range(ToolUsesOf(msg))
    /\ \A frag \in FragmentsAt(i) : Contains(ThinkingOf(msg), frag)

Buffering(i) == i \in Calls \/ FragmentsAt(i) # {}

\* C6: a user_message event flushes the pending tool-uses and thinking before
\* the user message is appended: every tool call and reasoning fragment read
\* before a user_message is in an assistant message that precedes that user
\* message in the message list.
C6_FlushBeforeUser ==
    \A j \in 1..Len(codex.messages) :
        codex.messages[j].role = "user" =>
            \A i \in 1..(PositionOf(codex.messages[j]) - 1) :
                Buffering(i) => \E k \in 1..(j - 1) : Carries(codex.messages[k], i)

C6_Witness ==
    \E j \in 2..Len(codex.messages) :
        /\ codex.messages[j].role = "user"
        /\ codex.messages[j - 1].role = "assistant"
        /\ "content" \notin DOMAIN codex.messages[j - 1]
        /\ codex.messages[j - 1].timestamp = codex.messages[j].timestamp
        /\ ToolUsesOf(codex.messages[j - 1]) # <<>>

AgentMessageRead ==
    /\ Len(stream') = Len(stream) + 1
    /\ IsEvent(stream'[Len(stream')], "agent_message")

\* C7: an agent_message event appends at most one assistant message, made of
\* the event's text (if any) and all the thinking and tool-uses pending; it
\* appends it only if it carries more than the role; both pending queues are
\* empty afterwards, appended or not.
C7_AgentMessageStep ==
    AgentMessageRead =>
        LET e == stream'[Len(stream')]
            hasText == Strip(e.message) # <<>>
            more == hasText \/ codex.pending_thinking # <<>> \/ codex.pending_tool_uses # <<>>
            last == codex'.messages[Len(codex'.messages)]
        IN  /\ codex'.pending_tool_uses = <<>>
            /\ codex'.pending_thinking = <<>>
            /\ ~more => codex'.messages = codex.messages
            /\ more =>
                  /\ Len(codex'.messages) = Len(codex.messages) + 1
                  /\ SubSeq(codex'.messages, 1, Len(codex.messages)) = codex.messages
                  /\ last.role = "assistant"
                  /\ ("content" \in DOMAIN last) = hasText
                  /\ hasText => last.content = anonymize_text(Strip(e.message))
                  /\ ToolUsesOf(last) = codex.pending_tool_uses
                  /\ ThinkingOf(last) = JoinParagraphs(codex.pending_thinking)

\* C7 holds of every step that reads an agent_message event.
C7_AgentMessage == [][C7_AgentMessageStep]_vars

\* An agent message without text is read with a tool call and thinking
\* pending: one assistant message with both and no content is appended.
C7_Witness ==
    /\ Len(stream) >= 3
    /\ IsEvent(stream[Len(stream)], "agent_message")
    /\ Strip(stream[Len(stream)].message) = <<>>
    /\ parsed = NoResult
    /\ codex.pending_tool_uses = <<>>
    /\ codex.pending_thinking = <<>>
    /\ Len(codex.messages) = 1
    /\ ToolUsesOf(codex.messages[1]) # <<>>
    /\ ThinkingOf(codex.messages[1]) # <<>>
    /\ "content" \notin DOMAIN codex.messages[1]

\* The entries read after the last user_message or agent_message event.
Trailing ==
    {i \in 1..Len(stream) :
        \A j \in (i + 1)..Len(stream) :
            ~IsEvent(stream[j], "user_message") /\ ~IsEvent(stream[j], "agent_message")}

\* C8: at the end of the stream what is still pending is flushed once, as a
\* trailing assistant message without content: whenever a session is
\* returned both pending queues are empty, and the tool calls and reasoning
\* read after the last user or agent message are in its last message, an
\* assistant message without content.
C8_FinalFlush ==
    Returned =>
        LET msgs == parsed.result.messages
            last == msgs[Len(msgs)]
        IN  /\ codex.pending_tool_uses = <<>>
            /\ codex.pending_thinking = <<>>
            /\ msgs = codex.messages
            /\ \A i \in Trailing :
                  Buffering(i) =>
                      /\ Carries(last, i)
                      /\ "content" \notin DOMAIN last
                      /\ \A k \in 1..(Len(msgs) - 1) : ~Carries(msgs[k], i)

C8_Witness ==
    /\ Returned
    /\ Len(parsed.result.messages) = 2
    /\ parsed.result.messages[1].role = "user"
    /\ \E i \in Trailing \cap Calls : Carries(parsed.result.messages[2], i)
    /\ "content" \notin DOMAIN parsed.result.messages[2]

CwdPositions ==
    {i \in 1..Len(stream) :
        /\ stream[i].type \in {"session_meta", "turn_context"}
        /\ Strip(stream[i].cwd) # <<>>}

\* The last working directory observed in the stream (the placeholder when
\* none was).
LastCwd ==
    IF CwdPositions = {} THEN UNKNOWN_CODEX_CWD
    ELSE stream[CHOOSE i \in CwdPositions : \A j \in CwdPositions : i >= j].cwd

\* C9: a session is returned for a target project only if the last working
\* directory observed over all session_meta and turn_context entries equals
\* the requested key; otherwise the result is absence. When it equals the key,
\* the file was read and messages were produced, the session is returned.
C9_LastCwdDecides ==
    parsed # NoResult =>
        /\ parsed.result # Absent => LastCwd = parsed.target
        /\ (LastCwd = parsed.target /\ ~parsed.ioError /\ codex.messages # <<>>)
              => parsed.result # Absent

\* The working directory changes from /a to /b: returned for key /b.
C9_Witness ==
    /\ Returned
    /\ parsed.target = CwdB
    /\ \E i, j \in CwdPositions : i < j /\ stream[i].cwd = CwdA /\ stream[j].cwd = CwdB

(***************************************************************************)
(* parser.py: the Claude normalizer                                        *)
(*                                                                         *)
(* A line of the file is blank, not JSON, or JSON; a JSON line holds an    *)
(* object (a dict, modelled as a record with exactly its keys) or another  *)
(* value. A raw timestamp is [str |-> s], [ms |-> n] or another shape.     *)
(***************************************************************************)

\* Bound of the Claude model: the number of lines of a session file.
MaxLines == 3

ClaudeStem == "claude-session-file"

\* d.get(k, default)
GetOr(d, k, default) == IF k \in DOMAIN d THEN d[k] ELSE default

\* datetime.fromtimestamp(ms / 1000, tz=utc).isoformat(), for whole seconds
\* below ten.
IsoFormat(ms) == "1970-01-01T00:00:0" \o ToString(ms \div 1000) \o "+00:00"

_normalize_timestamp(value) ==
    IF "str" \in DOMAIN value THEN value.str
    ELSE IF "ms" \in DOMAIN value THEN IsoFormat(value.ms)
    ELSE None

JsonNull == [null |-> TRUE]

NewClaudeState ==
    [ messages |-> <<>>,
      metadata |-> [session_id |-> ClaudeStem, cwd |-> NoCwd, git_branch |-> None,
                    claude_version |-> None, model |-> None,
                    start_time |-> None, end_time |-> None],
      stats |-> _make_stats ]

\* "\n".join(parts)
RECURSIVE JoinLines(_)
JoinLines(parts) ==
    IF parts = <<>> THEN <<>>
    ELSE IF Len(parts) = 1 THEN parts[1]
    ELSE parts[1] \o <<"\n">> \o JoinLines(Tail(parts))

\* [b.get("text", "") for b in content if b.get("type") == "text"]
RECURSIVE TextParts(_)
TextParts(blocks) ==
    IF blocks = <<>> THEN <<>>
    ELSE (IF GetOr(Head(blocks), "type", None) = "text"
          THEN <<GetOr(Head(blocks), "text", <<>>)>> ELSE <<>>)
         \o TextParts(Tail(blocks))

\* The text, or Absent for None.
_extract_user_content(entry) ==
    LET msg_data == GetOr(entry, "message", <<>>)
        raw      == GetOr(msg_data, "content", [str |-> <<>>])
        content  == IF "list" \in DOMAIN raw THEN JoinLines(TextParts(raw.list))
                    ELSE raw.str
    IN  IF content = <<>> \/ Strip(content) = <<>> THEN Absent
        ELSE [content |-> anonymize_text(content)]

\* The loop of _extract_assistant_content over the content blocks.
RECURSIVE AssistantParts(_, _, _)
AssistantParts(blocks, include_thinking, acc) ==
    IF blocks = <<>> THEN acc
    ELSE LET block == Head(blocks)
             block_type == GetOr(block, "type", None)
             next ==
                IF block_type = "text"
                THEN IF Strip(GetOr(block, "text", <<>>)) # <<>>
                     THEN [acc EXCEPT !.text_parts =
                              Append(@, anonymize_text(Strip(block.text)))]
                     ELSE acc
                ELSE IF block_type = "thinking" /\ include_thinking
                THEN IF Strip(GetOr(block, "thinking", <<>>)) # <<>>
                     THEN [acc EXCEPT !.thinking_parts =
                              Append(@, anonymize_text(Strip(block.thinking)))]
                     ELSE acc
                ELSE IF block_type = "tool_use"
                THEN [acc EXCEPT !.tool_uses = Append(@,
                        [tool |-> GetOr(block, "name", None),
                         input |-> _summarize_tool_input(GetOr(block, "name", None),
                                                         block.input)])]
                ELSE acc
         IN  AssistantParts(Tail(blocks), include_thinking, next)

\* The message built even when no block contributed a part.
ExtractAssistantAlways(entry, include_thinking) ==
    LET msg_data == GetOr(entry, "message", <<>>)
        raw      == GetOr(msg_data, "content", [list |-> <<>>])
    IN  IF "list" \notin DOMAIN raw THEN Absent
        ELSE LET parts == AssistantParts(raw.list, include_thinking,
                            [text_parts |-> <<>>, thinking_parts |-> <<>>, tool_uses |-> <<>>])
             IN  [role |-> "assistant"]
                 @@ (IF parts.text_parts # <<>>
                     THEN [content |-> JoinParagraphs(parts.text_parts)] ELSE <<>>)
                 @@ (IF parts.thinking_parts # <<>>
                     THEN [thinking |-> JoinParagraphs(parts.thinking_parts)] ELSE <<>>)
                 @@ (IF parts.tool_uses # <<>>
                     THEN [tool_uses |-> parts.tool_uses] ELSE <<>>)

\* The message, or Absent for None.
_extract_assistant_content(entry, include_thinking) ==
    LET msg_data == GetOr(entry, "message", <<>>)
        raw      == GetOr(msg_data, "content", [list |-> <<>>])
    IN  IF "list" \notin DOMAIN raw THEN Absent
        ELSE LET parts == AssistantParts(raw.list, include_thinking,
                            [text_parts |-> <<>>, thinking_parts |-> <<>>, tool_uses |-> <<>>])
             IN  IF parts.text_parts = <<>> /\ parts.tool_uses = <<>>
                    /\ parts.thinking_parts = <<>>
                 THEN Absent
                 ELSE [role |-> "assistant"]
                      @@ (IF parts.text_parts # <<>>
                          THEN [content |-> JoinParagraphs(parts.text_parts)] ELSE <<>>)
                      @@ (IF parts.thinking_parts # <<>>
                          THEN [thinking |-> JoinParagraphs(parts.thinking_parts)] ELSE <<>>)
                      @@ (IF parts.tool_uses # <<>>
                          THEN [tool_uses |-> parts.tool_uses] ELSE <<>>)

\* The metadata captured from every entry that carries a working directory.
CaptureMetadataAlways(metadata, entry) ==
    IF GetOr(entry, "cwd", NoCwd) # NoCwd
    THEN [metadata EXCEPT
            !.cwd = anonymize_path(entry.cwd),
            !.git_branch = GetOr(entry, "gitBranch", None),
            !.claude_version = GetOr(entry, "version", None),
            !.session_id = GetOr(entry, "sessionId", @)]
    ELSE metadata

\* Lines 510-514 of _process_entry: the session-level metadata.
CaptureMetadata(metadata, entry) ==
    IF metadata.cwd = NoCwd /\ GetOr(entry, "cwd", NoCwd) # NoCwd
    THEN [metadata EXCEPT
            !.cwd = anonymize_path(entry.cwd),
            !.git_branch = GetOr(entry, "gitBranch", None),
            !.claude_version = GetOr(entry, "version", None),
            !.session_id = GetOr(entry, "sessionId", @)]
    ELSE metadata

_process_entry(entry, st, include_thinking) ==
    LET entry_type == GetOr(entry, "type", None)
        captured   == [st EXCEPT !.metadata = CaptureMetadata(@, entry)]
        timestamp  == _normalize_timestamp(GetOr(entry, "timestamp", JsonNull))
    IN  IF entry_type = "user"
        THEN LET content == _extract_user_content(entry)
             IN  IF content # Absent
                 THEN [captured EXCEPT
                        !.messages = Append(@, [role |-> "user", content |-> content.content,
                                                timestamp |-> timestamp]),
                        !.stats.user_messages = @ + 1,
                        !.metadata = _update_time_bounds(@, timestamp)]
                 ELSE captured
        ELSE IF entry_type = "assistant"
        THEN LET msg == _extract_assistant_content(entry, include_thinking)
                 message == GetOr(entry, "message", <<>>)
                 usage == GetOr(message, "usage", <<>>)
             IN  IF msg # Absent
                 THEN [captured EXCEPT
                        !.metadata = _update_time_bounds(
                            [@ EXCEPT !.model = IF @ = None
                                                THEN GetOr(message, "model", None) ELSE @],
                            timestamp),
                        !.stats.input_tokens = @ + GetOr(usage, "input_tokens", 0)
                                                 + GetOr(usage, "cache_read_input_tokens", 0),
                        !.stats.output_tokens = @ + GetOr(usage, "output_tokens", 0),
                        !.stats.tool_uses = @ + Len(ToolUsesOf(msg)),
                        !.messages = Append(@, msg @@ [timestamp |-> timestamp]),
                        !.stats.assistant_messages = @ + 1]
                 ELSE captured
        ELSE captured

(* The lines a Claude session file may hold at position k. *)

MetaP ==
    [cwd |-> <<"/", "u", "p">>, gitBranch |-> "main", version |-> "1.0", sessionId |-> "sid-p"]

MetaQ ==
    [cwd |-> <<"/", "q">>, gitBranch |-> "dev", version |-> "2.0", sessionId |-> "sid-q"]

\* A working directory and nothing else.
MetaBare == [cwd |-> <<"/", "r">>]

\* A branch and a session id, but no working directory.
MetaNoCwd == [gitBranch |-> "stray", sessionId |-> "sid-x"]

NoKeys == <<>>

StrTimestamp(k) == [timestamp |-> [str |-> Timestamps[k]]]

MsTimestamp(k) == [timestamp |-> [ms |-> k * 1000]]

ClaudeEntry(type, timestamp, meta, message) ==
    [type |-> type, message |-> message] @@ timestamp @@ meta

Hello == <<"h", "i">>

UserEntries(k) ==
    { ClaudeEntry("user", StrTimestamp(k), meta, [content |-> [str |-> Hello]]) :
        meta \in {NoKeys, MetaP, MetaBare} }
    \cup
    { ClaudeEntry("user", StrTimestamp(k), MetaP, [content |-> [str |-> <<" ">>]]),
      ClaudeEntry("user", StrTimestamp(k), NoKeys,
                  [content |-> [list |-> << [type |-> "text", text |-> <<"a">>],
                                            [type |-> "image"],
                                            [type |-> "text", text |-> <<"b">>] >>]]),
      ClaudeEntry("user", MsTimestamp(k), NoKeys, [content |-> [str |-> Hello]]),
      ClaudeEntry("user", NoKeys, NoKeys, [content |-> [str |-> Hello]]) }

TextBlock(t) == [type |-> "text", text |-> t]

ThinkingBlock(k) == [type |-> "thinking", thinking |-> <<" ", "t", DigitChars[k + 1]>>]

ToolUseBlock(k) ==
    [type |-> "tool_use", name |-> "Bash",
     input |-> [isDict |-> TRUE, key |-> "command", value |-> <<"l", "s", DigitChars[k + 1]>>]]

Usage == [input_tokens |-> 10, cache_read_input_tokens |-> 3, output_tokens |-> 5]

AssistantEntries(k) ==
    { ClaudeEntry("assistant", StrTimestamp(k), NoKeys,
                  [content |-> [list |-> <<TextBlock(<<" ", "o", "k">>)>>], usage |-> Usage]),
      ClaudeEntry("assistant", StrTimestamp(k), NoKeys,
                  [content |-> [list |-> <<TextBlock(<<"o", "k">>)>>],
                   model |-> "claude-x", usage |-> Usage]),
      ClaudeEntry("assistant", StrTimestamp(k), NoKeys,
                  [content |-> [list |-> <<ThinkingBlock(k), ToolUseBlock(k)>>],
                   model |-> "claude-x"]),
      ClaudeEntry("assistant", StrTimestamp(k), NoKeys,
                  [content |-> [list |-> <<TextBlock(<<" ">>), ThinkingBlock(k)>>],
                   model |-> "claude-y", usage |-> Usage]),
      ClaudeEntry("assistant", StrTimestamp(k), MetaQ,
                  [content |-> [list |-> <<TextBlock(<<"o", "k">>)>>], usage |-> Usage]) }

OtherTypeEntries(k) ==
    { ClaudeEntry("system", StrTimestamp(k), meta, NoKeys) :
        meta \in {NoKeys, MetaQ, MetaNoCwd} }

\* A line that is JSON but holds no object, such as [1, 2].
NonObjectLine == [raw |-> "json", object |-> FALSE, value |-> <<1, 2>>]

ObjectLine(entry) == [raw |-> "json", object |-> TRUE, value |-> entry]

BlankLine == [raw |-> "blank"]

MalformedLine == [raw |-> "not json"]

InitClaude ==
    /\ IdleRest
    /\ IdleExport
    /\ IdleRedact
    /\ IdleTool
    /\ IdleCodex
    /\ IdleIndex
    /\ lines = <<>>
    /\ claude = NewClaudeState
    /\ claudeThinking \in BOOLEAN
    /\ claudeParsed = NoResult

ReadingLines == claudeParsed = NoResult /\ Len(lines) < MaxLines

\* One line of _iter_jsonl that yields an entry, and _process_entry on it.
ReadEntry(entry) ==
    /\ lines' = Append(lines, ObjectLine(entry))
    /\ claude' = _process_entry(entry, claude, claudeThinking)
    /\ UNCHANGED <<claudeThinking, claudeParsed, redactVars, toolVars, codexVars, indexVars, exportVars, restVars>>

ReadUser ==
    /\ ReadingLines
    /\ \E entry \in UserEntries(Len(lines) + 1) : ReadEntry(entry)

ReadAssistant ==
    /\ ReadingLines
    /\ \E entry \in AssistantEntries(Len(lines) + 1) : ReadEntry(entry)

ReadOtherType ==
    /\ ReadingLines
    /\ \E entry \in OtherTypeEntries(Len(lines) + 1) : ReadEntry(entry)

\* if not line: continue / except json.JSONDecodeError: continue
SkipLine ==
    /\ ReadingLines
    /\ \E line \in {BlankLine, MalformedLine} : lines' = Append(lines, line)
    /\ UNCHANGED <<claude, claudeThinking, claudeParsed,
                   redactVars, toolVars, codexVars, indexVars, exportVars, restVars>>

\* json.loads yields a value that has no get: entry.get raises, and only
\* OSError is caught.
ReadNonObject ==
    /\ ReadingLines
    /\ lines' = Append(lines, NonObjectLine)
    /\ claudeParsed' = [ioError |-> FALSE, raised |-> "AttributeError", result |-> Absent]
    /\ UNCHANGED <<claude, claudeThinking, redactVars, toolVars, codexVars, indexVars, exportVars, restVars>>

\* What _parse_claude_session_file returns when open or a read raises OSError.
PartialOnOSError(st) == _make_session_result(st.metadata, st.messages, st.stats)

OnOSError(st) == Absent

ClaudeReadFails ==
    /\ claudeParsed = NoResult
    /\ claudeParsed' = [ioError |-> TRUE, raised |-> None, result |-> OnOSError(claude)]
    /\ UNCHANGED <<lines, claude, claudeThinking, redactVars, toolVars, codexVars, indexVars, exportVars, restVars>>

ClaudeEndOfFile ==
    /\ claudeParsed = NoResult
    /\ claudeParsed' =
          [ioError |-> FALSE, raised |-> None,
           result |-> _make_session_result(claude.metadata, claude.messages, claude.stats)]
    /\ UNCHANGED <<lines, claude, claudeThinking, redactVars, toolVars, codexVars, indexVars, exportVars, restVars>>

NextClaude ==
    \/ ReadUser
    \/ ReadAssistant
    \/ ReadOtherType
    \/ SkipLine
    \/ ReadNonObject
    \/ ClaudeReadFails
    \/ ClaudeEndOfFile

SpecClaude == InitClaude /\ [][NextClaude]_vars

\* Either normalizer on one file.
InitNormalize == InitClaude \/ InitCodex

\* The normalizer that was started takes the steps.
NextNormalize ==
    \/ claude # NoResult /\ NextClaude
    \/ codex # NoResult /\ NextCodex

SpecNormalize == InitNormalize /\ [][NextNormalize]_vars

ClaudeReturned == claudeParsed # NoResult /\ claudeParsed.result # Absent

(***************************************************************************)
(* Properties of the normalizers                                           *)
(***************************************************************************)

\* The line at position i holds a log record.
IsEntry(i) == lines[i].raw = "json" /\ lines[i].object

EntryIndexes == {i \in 1..Len(lines) : IsEntry(i)}

MinOf(S) == CHOOSE m \in S : \A x \in S : m <= x

\* C11: a normalizer returns absence whenever no message was produced, so a
\* returned session has a non-empty message list; a file holding only
\* entries of unrecognized types, or no line at all, yields no session.
C11_NoEmptySession ==
    /\ Returned => parsed.result.messages # <<>>
    /\ ClaudeReturned => claudeParsed.result.messages # <<>>
    /\ (parsed # NoResult /\ codex.messages = <<>>) => parsed.result = Absent
    /\ (claudeParsed # NoResult /\ claude.messages = <<>>) => claudeParsed.result = Absent
    /\ (/\ parsed # NoResult
        /\ \A i \in 1..Len(stream) : stream[i].type = "compacted") => parsed.result = Absent
    /\ (/\ claudeParsed # NoResult
        /\ \A i \in EntryIndexes : lines[i].value.type \notin {"user", "assistant"})
          => claudeParsed.result = Absent

\* A Claude file of two or more entries, all of an unrecognized type, read to
\* its end: no session.
C11_Witness ==
    /\ claudeParsed # NoResult
    /\ ~claudeParsed.ioError
    /\ claudeParsed.raised = None
    /\ Len(lines) >= 2
    /\ \A i \in 1..Len(lines) : IsEntry(i) /\ lines[i].value.type = "system"
    /\ claudeParsed.result = Absent

HasPayload(msg) ==
    \/ "content" \in DOMAIN msg /\ msg.content # <<>>
    \/ "thinking" \in DOMAIN msg /\ msg.thinking # <<>>
    \/ "tool_uses" \in DOMAIN msg /\ msg.tool_uses # <<>>

AllCarry(msgs) == \A i \in 1..Len(msgs) : HasPayload(msgs[i])

\* C12: every message either normalizer appends, and so every message of a
\* returned session, carries a non-empty content, thinking or tool_uses, for
\* every entry sequence and either value of include_thinking.
C12_MessagesCarry ==
    /\ codex # NoResult => AllCarry(codex.messages)
    /\ claude # NoResult => AllCarry(claude.messages)
    /\ Returned => AllCarry(parsed.result.messages)
    /\ ClaudeReturned => AllCarry(claudeParsed.result.messages)

\* An assistant entry none of whose blocks contributes a part was read (its
\* only non-blank block is thinking, and thinking is disabled), and a session
\* is returned from the other entries.
C12_Witness ==
    /\ ClaudeReturned
    /\ ~claudeThinking
    /\ \E i \in EntryIndexes :
          /\ lines[i].value.type = "assistant"
          /\ Len(lines[i].value.message.content.list) = 2
          /\ _extract_assistant_content(lines[i].value, claudeThinking) = Absent

CodexModelSeen ==
    {i \in 1..Len(stream) : stream[i].type = "turn_context" /\ stream[i].model # None}

ProviderSeen ==
    {i \in 1..Len(stream) : stream[i].type = "session_meta" /\ stream[i].model_provider # None}

\* The assistant entries that produce a message and name a model.
ClaudeModelSeen ==
    {i \in EntryIndexes :
        /\ lines[i].value.type = "assistant"
        /\ _extract_assistant_content(lines[i].value, claudeThinking) # Absent
        /\ "model" \in DOMAIN lines[i].value.message}

RECURSIVE ProcessRecords(_, _, _)
ProcessRecords(st, ls, include_thinking) ==
    IF ls = <<>> THEN st
    ELSE ProcessRecords(
            IF Head(ls).raw = "json" /\ Head(ls).object
            THEN _process_entry(Head(ls).value, st, include_thinking) ELSE st,
            Tail(ls), include_thinking)

\* C14: a line that is not a well-formed log record is skipped: unless the
\* file cannot be read, the normalizer raises nothing and returns what the
\* well-formed lines before and after it produce.
C14_MalformedSkipped ==
    (claudeParsed # NoResult /\ ~claudeParsed.ioError) =>
        /\ claudeParsed.raised = None
        /\ LET expected == ProcessRecords(NewClaudeState, lines, claudeThinking)
           IN  claudeParsed.result =
                  _make_session_result(expected.metadata, expected.messages, expected.stats)

CwdLines == {i \in EntryIndexes : GetOr(lines[i].value, "cwd", NoCwd) # NoCwd}

\* C15: the anonymized cwd, the git branch, the version and the session id
\* are those of the first entry that carries a working directory, whatever
\* entries follow it (and the initial ones while there is no such entry); a
\* returned session carries that session id and branch.
C15_MetadataOnce ==
    claude # NoResult =>
        LET m == claude.metadata
            captured ==
                IF CwdLines = {}
                THEN [cwd |-> NoCwd, git_branch |-> None, claude_version |-> None,
                      session_id |-> ClaudeStem]
                ELSE LET e == lines[MinOf(CwdLines)].value
                     IN  [cwd |-> anonymize_path(e.cwd),
                          git_branch |-> GetOr(e, "gitBranch", None),
                          claude_version |-> GetOr(e, "version", None),
                          session_id |-> GetOr(e, "sessionId", ClaudeStem)]
        IN  /\ m.cwd = captured.cwd
            /\ m.git_branch = captured.git_branch
            /\ m.claude_version = captured.claude_version
            /\ m.session_id = captured.session_id
            /\ ClaudeReturned =>
                  /\ claudeParsed.result.session_id = captured.session_id
                  /\ claudeParsed.result.git_branch = captured.git_branch

\* The first entry with a working directory has no branch and no session id;
\* a later entry has another working directory, a branch and a session id:
\* the returned session keeps the file's stem and no branch.
C15_Witness ==
    /\ ClaudeReturned
    /\ \E i, j \in CwdLines :
          /\ i = MinOf(CwdLines)
          /\ i < j
          /\ "gitBranch" \notin DOMAIN lines[i].value
          /\ "gitBranch" \in DOMAIN lines[j].value
          /\ lines[i].value.cwd # lines[j].value.cwd
    /\ claudeParsed.result.git_branch = None
    /\ claudeParsed.result.session_id = ClaudeStem

\* C16: when opening or reading the file fails, also after messages were
\* accumulated, the normalizer returns absence and raises nothing.
C16_IoFailureAbsent ==
    /\ (parsed # NoResult /\ parsed.ioError) => parsed.result = Absent
    /\ (claudeParsed # NoResult /\ claudeParsed.ioError) =>
          /\ claudeParsed.result = Absent
          /\ claudeParsed.raised = None

\* A read error after two messages: absence.
C16_Witness ==
    /\ claudeParsed # NoResult
    /\ claudeParsed.ioError
    /\ Len(claude.messages) >= 2
    /\ claudeParsed.result = Absent

\* The timestamps the entries of the Claude file carry, normalized.
LogTimes ==
    SelectSeq([i \in 1..Len(lines) |->
                  IF IsEntry(i)
                  THEN _normalize_timestamp(GetOr(lines[i].value, "timestamp", JsonNull))
                  ELSE None],
              LAMBDA t : t # None)

FirstOrNone(ts) == IF ts = <<>> THEN None ELSE ts[1]

LastOrNone(ts) == IF ts = <<>> THEN None ELSE ts[Len(ts)]

\* C17 as stated: start_time is the first and end_time the last timestamp
\* observed in the log, absent only when the log has none.
C17_FirstLastInLog ==
    /\ ClaudeReturned =>
          /\ claudeParsed.result.start_time = FirstOrNone(LogTimes)
          /\ claudeParsed.result.end_time = LastOrNone(LogTimes)
    /\ Returned =>
          /\ parsed.result.start_time = stream[1].timestamp
          /\ parsed.result.end_time = stream[Len(stream)].timestamp

\* The timestamps of the messages that have one.
MessageTimes(msgs) ==
    SelectSeq([i \in 1..Len(msgs) |-> msgs[i].timestamp], LAMBDA t : t # None)

TimeBoundsOf(metadata, msgs) ==
    /\ metadata.start_time = FirstOrNone(MessageTimes(msgs))
    /\ metadata.end_time = LastOrNone(MessageTimes(msgs))

\* C17 as amended: start_time is the first and end_time the last timestamp
\* among the messages the normalizer appended (an entry that yields no
\* message does not count, and the message of the Codex end-of-stream flush
\* takes end_time as its timestamp); both are absent exactly when no message
\* has a timestamp.
C17_MessageTimeBounds ==
    /\ claude # NoResult => TimeBoundsOf(claude.metadata, claude.messages)
    /\ codex # NoResult => TimeBoundsOf(codex.metadata, codex.messages)
    /\ ClaudeReturned => TimeBoundsOf(claudeParsed.result, claudeParsed.result.messages)
    /\ Returned => TimeBoundsOf(parsed.result, parsed.result.messages)

\* A Claude file whose first entry has a timestamp but yields no message,
\* followed by two messages with timestamps: the bounds are those of the
\* two messages.
C17_Witness ==
    /\ ClaudeReturned
    /\ Len(LogTimes) = 3
    /\ Len(claudeParsed.result.messages) = 2
    /\ claudeParsed.result.start_time = LogTimes[2]
    /\ claudeParsed.result.end_time = LogTimes[3]

CountRole(msgs, role) == Cardinality({i \in 1..Len(msgs) : msgs[i].role = role})

RECURSIVE AllToolUses(_)
\* The tool_uses lists of the messages, concatenated in message order.
AllToolUses(msgs) ==
    IF msgs = <<>> THEN <<>> ELSE ToolUsesOf(Head(msgs)) \o AllToolUses(Tail(msgs))

CountersAgree(msgs, stats) ==
    /\ stats.user_messages = CountRole(msgs, "user")
    /\ stats.assistant_messages = CountRole(msgs, "assistant")
    /\ stats.tool_uses = Len(AllToolUses(msgs))

\* C28: the message counters agree with the message list after every entry
\* either normalizer reads, and so in every session returned:
\* stats.user_messages is the number of messages with role user,
\* stats.assistant_messages the number with role assistant, and
\* stats.tool_uses the total number of tool_uses entries over all messages.
C28_CountersAgree ==
    /\ codex # NoResult => CountersAgree(codex.messages, codex.stats)
    /\ claude # NoResult => CountersAgree(claude.messages, claude.stats)
    /\ Returned => CountersAgree(parsed.result.messages, parsed.result.stats)
    /\ ClaudeReturned =>
          CountersAgree(claudeParsed.result.messages, claudeParsed.result.stats)

\* A returned Codex session with a user message and an assistant message
\* that carries two tool calls.
C28_Witness ==
    /\ Returned
    /\ parsed.result.stats.user_messages = 1
    /\ parsed.result.stats.assistant_messages = 1
    /\ parsed.result.stats.tool_uses = 2
    /\ \E i \in 1..Len(parsed.result.messages) :
          Len(ToolUsesOf(parsed.result.messages[i])) = 2

RECURSIVE CallsFrom(_)
\* The tool calls of the entries from position i on, in stream order.
CallsFrom(i) ==
    IF i > Len(stream) THEN <<>>
    ELSE (IF i \in Calls THEN <<ToolUseAt(i)>> ELSE <<>>) \o CallsFrom(i + 1)

\* C29: the tool_uses lists of the messages, concatenated in message order,
\* followed by the pending queue, are the function_call events read so far
\* in stream order; a returned session has an empty queue, so its messages
\* hold exactly one entry per function_call event of the stream, in stream
\* order.
C29_ToolCallsKept ==
    /\ (codex # NoResult /\ parsed = NoResult) =>
          AllToolUses(codex.messages) \o codex.pending_tool_uses = CallsFrom(1)
    /\ Returned => AllToolUses(parsed.result.messages) = CallsFrom(1)

\* Two tool calls with an agent message between them, and a user message
\* last: the calls are on two assistant messages, in stream order.
C29_Witness ==
    /\ Returned
    /\ Cardinality(Calls) = 2
    /\ \E i, j \in 1..Len(parsed.result.messages) :
          /\ i < j
          /\ Len(ToolUsesOf(parsed.result.messages[i])) = 1
          /\ Len(ToolUsesOf(parsed.result.messages[j])) = 1
    /\ AllToolUses(parsed.result.messages) = CallsFrom(1)

(***************************************************************************)
(* parser.py: Codex project discovery and parse_project_sessions           *)
(***************************************************************************)

\* Bound of the discovery model: the number of entries of a session file.
MaxFileEvents == 3

\* The session files, in the sorted order _iter_codex_session_files yields.
FileNames == <<"rollout-1", "rollout-2">>

\* The loop body of _parse_codex_session_file: one entry dispatched on its type.
CodexEntry(st, entry, include_thinking) ==
    CASE entry.type = "session_meta" -> _handle_codex_session_meta(st, entry)
      [] entry.type = "turn_context" -> _handle_codex_turn_context(st, entry)
      [] entry.type = "response_item" ->
            _handle_codex_response_item(st, entry, include_thinking)
      [] entry.type = "event_msg" ->
            CASE entry.event = "token_count" -> _handle_codex_token_count(st, entry)
              [] entry.event = "agent_reasoning" ->
                    HandleAgentReasoning(st, entry, include_thinking)
              [] entry.event = "user_message" -> _handle_codex_user_message(st, entry)
              [] entry.event = "agent_message" ->
                    _handle_codex_agent_message(st, entry, include_thinking)
              [] OTHER -> st
      [] OTHER -> st

RECURSIVE CodexEntries(_, _, _)
CodexEntries(st, entries, include_thinking) ==
    IF entries = <<>> THEN st
    ELSE CodexEntries(CodexEntry(st, Head(entries), include_thinking),
                      Tail(entries), include_thinking)

_parse_codex_session_file(entries, include_thinking, target_cwd) ==
    EndResult(CodexEntries(NewCodexParseState, entries, include_thinking), target_cwd)

\* The first working directory of a file, <<>> for None.
RECURSIVE _extract_codex_cwd(_)
_extract_codex_cwd(entries) ==
    IF entries = <<>> THEN NoCwd
    ELSE IF /\ Head(entries).type \in {"session_meta", "turn_context"}
            /\ NonBlank(Head(entries).cwd)
         THEN Head(entries).cwd
         ELSE _extract_codex_cwd(Tail(entries))

IndexKey(entries) ==
    IF _extract_codex_cwd(entries) = NoCwd THEN UNKNOWN_CODEX_CWD
    ELSE _extract_codex_cwd(entries)

\* A key the dictionary does not hold maps to the empty list.
_build_codex_project_index(files) ==
    [key \in TargetCwds |->
        SelectSeq(FileNames, LAMBDA f : IndexKey(files[f]) = key)]

EmptyIndex == [key \in TargetCwds |-> <<>>]

_get_codex_project_index(index, files, refresh) ==
    IF refresh \/ index = EmptyIndex THEN _build_codex_project_index(files) ELSE index

RECURSIVE BaseName(_)
BaseName(path) ==
    IF "/" \notin Range(path) THEN path ELSE BaseName(Tail(path))

_build_codex_project_name(cwd) ==
    <<"c", "o", "d", "e", "x", ":">>
        \o (IF cwd = UNKNOWN_CODEX_CWD THEN <<"u", "n", "k", "n", "o", "w", "n">>
            ELSE IF BaseName(cwd) # <<>> THEN BaseName(cwd) ELSE cwd)

\* The sessions of the files in session_files, each with the file it is from.
RECURSIVE ParseAll(_, _, _)
ParseAll(session_files, files, key) ==
    IF session_files = <<>> THEN <<>>
    ELSE LET got == _parse_codex_session_file(files[Head(session_files)], TRUE, key)
         IN  (IF got # Absent /\ got.messages # <<>>
              THEN <<[file |-> Head(session_files),
                      session |-> got @@ [project |-> _build_codex_project_name(key),
                                          source |-> "codex"]]>>
              ELSE <<>>)
             \o ParseAll(Tail(session_files), files, key)

\* The entries of the files of the discovery model.
IndexEntries(k) ==
    {e \in SessionMetaEntries(k) : e.cwd # NoCwd /\ e.model_provider = "openai"}
        \cup {e \in TurnContextEntries(k) : e.cwd = CwdB /\ e.model = None}
        \cup {e \in UserMessageEntries(k) : NonBlank(e.message)}

FileStreams ==
    UNION { {es \in [1..n -> UNION {IndexEntries(k) : k \in 1..n}] :
                \A k \in 1..n : es[k] \in IndexEntries(k)} : n \in 0..MaxFileEvents }

OrdinaryFile == <<CHOOSE e \in IndexEntries(1) : e.type = "session_meta" /\ e.cwd = CwdA,
                  CHOOSE e \in IndexEntries(2) : e.type = "event_msg">>

InitIndex ==
    /\ IdleRest
    /\ IdleExport
    /\ IdleClaude
    /\ IdleRedact
    /\ IdleTool
    /\ IdleCodex
    /\ \E es \in FileStreams : disk = [f \in Range(FileNames) |->
                                          IF f = FileNames[1] THEN es ELSE OrdinaryFile]
    /\ projectIndex = EmptyIndex
    /\ listing = NoResult

\* discover_projects: the index is rebuilt.
DiscoverProjects ==
    /\ projectIndex' = _get_codex_project_index(projectIndex, disk, TRUE)
    /\ UNCHANGED <<disk, listing, redactVars, toolVars, codexVars, claudeVars, exportVars, restVars>>

\* parse_project_sessions(key, source=codex)
ParseProjectSessions ==
    \E key \in TargetCwds :
        LET index == _get_codex_project_index(projectIndex, disk, FALSE)
        IN  /\ projectIndex' = index
            /\ listing' = [key |-> key, sessions |-> ParseAll(index[key], disk, key)]
            /\ UNCHANGED <<disk, redactVars, toolVars, codexVars, claudeVars, exportVars, restVars>>

NextIndex == DiscoverProjects \/ ParseProjectSessions

SpecIndex == InitIndex /\ [][NextIndex]_vars

(***************************************************************************)
(* Properties of discovery and parse_project_sessions                      *)
(***************************************************************************)

CwdsOf(entries) ==
    {i \in 1..Len(entries) :
        /\ entries[i].type \in {"session_meta", "turn_context"}
        /\ Strip(entries[i].cwd) # <<>>}

LastCwdOf(entries) ==
    IF CwdsOf(entries) = {} THEN UNKNOWN_CODEX_CWD
    ELSE entries[CHOOSE i \in CwdsOf(entries) : \A j \in CwdsOf(entries) : i >= j].cwd

CwdChanges(entries) ==
    \E i, j \in CwdsOf(entries) : entries[i].cwd # entries[j].cwd

YieldsMessages(entries) ==
    \E i \in 1..Len(entries) : entries[i].type = "event_msg"

Listed == {listing.sessions[i].file : i \in 1..Len(listing.sessions)}

\* C10: a session file that yields messages and whose working directory
\* changes mid-session is in the result set of the project whose key is its
\* last working directory, and in no other project's result set.
C10_AttributedByLastCwd ==
    listing # NoResult =>
        \A f \in Range(FileNames) :
            (CwdChanges(disk[f]) /\ YieldsMessages(disk[f]))
                => (f \in Listed <=> listing.key = LastCwdOf(disk[f]))

(***************************************************************************)
(* parser.py: one conversation in both log formats                         *)
(*                                                                         *)
(* The conversation is one user turn followed by one assistant turn with   *)
(* a text and one tool call.                                               *)
(***************************************************************************)

RECURSIVE ClaudeLines(_, _, _)
\* for entry in _iter_jsonl(filepath): _process_entry(entry, ...)
ClaudeLines(st, ls, include_thinking) ==
    IF ls = <<>> THEN st
    ELSE ClaudeLines(IF Head(ls).raw = "json"
                     THEN _process_entry(Head(ls).value, st, include_thinking) ELSE st,
                     Tail(ls), include_thinking)

_parse_claude_session_file(ls, include_thinking) ==
    IF \E i \in 1..Len(ls) : ls[i].raw = "json" /\ ~ls[i].object
    THEN [ioError |-> FALSE, raised |-> "AttributeError", result |-> Absent]
    ELSE LET st == ClaudeLines(NewClaudeState, ls, include_thinking)
         IN  [ioError |-> FALSE, raised |-> None,
              result |-> _make_session_result(st.metadata, st.messages, st.stats)]

ListFiles == <<"l", "i", "s", "t">>

Checked == <<"d", "o", "n", "e">>

ClaudeAsk(k) ==
    { ObjectLine(ClaudeEntry("user", StrTimestamp(k), MetaP, [content |-> c])) :
        c \in { [str |-> ListFiles], [list |-> <<TextBlock(ListFiles)>>] } }

ClaudeAssistantLine(k, blocks) ==
    ObjectLine(ClaudeEntry("assistant", StrTimestamp(k), MetaP,
                           [content |-> [list |-> blocks], model |-> "claude-x",
                            usage |-> Usage]))

\* The text and the tool call as blocks of one assistant entry.
ClaudeTurnInOneEntry(k) ==
    { <<ClaudeAssistantLine(k, <<TextBlock(Checked), ToolUseBlock(k)>>)>>,
      <<ClaudeAssistantLine(k, <<ToolUseBlock(k), TextBlock(Checked)>>)>>,
      <<ClaudeAssistantLine(k, <<ThinkingBlock(k), TextBlock(Checked), ToolUseBlock(k)>>)>> }

\* The text and the tool call as two assistant entries.
ClaudeTurnInTwoEntries(k) ==
    { <<ClaudeAssistantLine(k, <<TextBlock(Checked)>>),
        ClaudeAssistantLine(k + 1, <<ToolUseBlock(k + 1)>>)>> }

ClaudeNoise == { <<>>, <<BlankLine>>, <<MalformedLine>>,
                 <<ObjectLine(ClaudeEntry("system", StrTimestamp(1), MetaP, NoKeys))>> }

ClaudeLogs ==
    { pre \o <<ask>> \o turn \o post :
        pre \in ClaudeNoise, ask \in ClaudeAsk(2),
        turn \in ClaudeTurnInOneEntry(3) \cup ClaudeTurnInTwoEntries(3),
        post \in {<<>>, <<BlankLine>>} }

ClaudeInOneEntry(ls) ==
    Cardinality({i \in 1..Len(ls) :
        ls[i].raw = "json" /\ ls[i].value.type = "assistant"}) = 1

CodexMeta ==
    { <<>>,
      <<[type |-> "session_meta", timestamp |-> Timestamps[1], cwd |-> CwdA,
         id |-> "session-1", model_provider |-> "openai", branch |-> "main"],
        [type |-> "turn_context", timestamp |-> Timestamps[2], cwd |-> CwdA,
         model |-> "gpt-5.3-codex"]>> }

CodexAsk(k) ==
    [type |-> "event_msg", timestamp |-> Timestamps[k], event |-> "user_message",
     message |-> ListFiles]

CodexCall(k) ==
    [type |-> "response_item", timestamp |-> Timestamps[k], item |-> "function_call",
     name |-> "exec_command", arguments |-> CallArguments(k)]

CodexSays(k) ==
    [type |-> "event_msg", timestamp |-> Timestamps[k], event |-> "agent_message",
     message |-> Checked]

CodexReasons(k) ==
    [type |-> "response_item", timestamp |-> Timestamps[k], item |-> "reasoning",
     summary |-> <<<<"r", DigitChars[k + 1]>>>>]

\* The function call, then the agent message that closes the turn.
CodexCallThenMessage(k) ==
    { <<CodexCall(k), CodexSays(k + 1)>>,
      <<CodexReasons(k), CodexCall(k + 1), CodexSays(k + 2)>> }

\* The agent message, then the function call.
CodexMessageThenCall(k) == { <<CodexSays(k), CodexCall(k + 1)>> }

CodexTail(k) ==
    { <<>>,
      <<[type |-> "event_msg", timestamp |-> Timestamps[k], event |-> "token_count",
         usage |-> [input_tokens |-> 30, cached_input_tokens |-> 5, output_tokens |-> 9]]>> }

CodexLogs ==
    { meta \o <<CodexAsk(3)>> \o turn \o tail :
        meta \in CodexMeta,
        turn \in CodexCallThenMessage(4) \cup CodexMessageThenCall(4),
        tail \in CodexTail(7) }

CodexCallFirst(es) ==
    \E i, j \in 1..Len(es) :
        /\ i < j
        /\ es[i].type = "response_item" /\ es[i].item = "function_call"
        /\ es[j].type = "event_msg" /\ es[j].event = "agent_message"

\* The working directory the session of a log is listed under.
CodexCwdOf(es) == IF es[1].type = "session_meta" THEN CwdA ELSE UNKNOWN_CODEX_CWD

InitPair ==
    /\ IdleRest
    /\ IdleExport
    /\ IdleRedact
    /\ IdleTool
    /\ IdleIndex
    /\ lines \in ClaudeLogs
    /\ stream \in CodexLogs
    /\ claudeThinking \in BOOLEAN
    /\ includeThinking = claudeThinking
    /\ claude = NoResult
    /\ codex = NoResult
    /\ claudeParsed = NoResult
    /\ parsed = NoResult

\* Both files normalized, each by its own normalizer.
NormalizePair ==
    /\ parsed = NoResult
    /\ claudeParsed' = _parse_claude_session_file(lines, claudeThinking)
    /\ parsed' = [target |-> CodexCwdOf(stream), ioError |-> FALSE,
                  result |-> _parse_codex_session_file(stream, includeThinking,
                                                       CodexCwdOf(stream))]
    /\ UNCHANGED <<lines, claude, claudeThinking, stream, codex, includeThinking,
                   redactVars, toolVars, indexVars, exportVars, restVars>>

NextPair == NormalizePair

SpecPair == InitPair /\ [][NextPair]_vars

(***************************************************************************)
(* Properties of the two formats                                           *)
(***************************************************************************)

\* What the claim compares: the roles, whether each content is non-empty,
\* and the number of tool_uses entries of each message.
Shape(msgs) ==
    [i \in 1..Len(msgs) |->
        [role |-> msgs[i].role,
         content |-> "content" \in DOMAIN msgs[i] /\ msgs[i].content # <<>>,
         tool_uses |-> Len(ToolUsesOf(msgs[i]))]]

OneTurnShape ==
    << [role |-> "user", content |-> TRUE, tool_uses |-> 0],
       [role |-> "assistant", content |-> TRUE, tool_uses |-> 1] >>

\* The assistant turn as two messages: the text, then the tool call.
SplitTurnShape ==
    << [role |-> "user", content |-> TRUE, tool_uses |-> 0],
       [role |-> "assistant", content |-> TRUE, tool_uses |-> 0],
       [role |-> "assistant", content |-> FALSE, tool_uses |-> 1] >>

BothReturned == Returned /\ ClaudeReturned

\* C21 as stated: every Claude log and every Codex log of the conversation
\* normalize to the same shape, [user, assistant] with content on both and
\* one tool_uses entry on the assistant message.
C21_SameShape ==
    parsed # NoResult =>
        /\ BothReturned
        /\ Shape(claudeParsed.result.messages) = OneTurnShape
        /\ Shape(parsed.result.messages) = OneTurnShape

\* C21: a Claude log that holds the text and the tool call as blocks of one
\* assistant entry and a Codex log whose function_call precedes the
\* agent_message normalize to the same shape, [user, assistant] with
\* content on both and one tool_uses entry on the assistant message; a log
\* of either format that holds the text first and the tool call in a later
\* record normalizes to two assistant messages.
C21_SameShapeWhenOneRecord ==
    parsed # NoResult =>
        /\ BothReturned
        /\ Shape(claudeParsed.result.messages) =
              (IF ClaudeInOneEntry(lines) THEN OneTurnShape ELSE SplitTurnShape)
        /\ Shape(parsed.result.messages) =
              (IF CodexCallFirst(stream) THEN OneTurnShape ELSE SplitTurnShape)
        /\ (ClaudeInOneEntry(lines) /\ CodexCallFirst(stream)) =>
              Shape(claudeParsed.result.messages) = Shape(parsed.result.messages)

\* The logs of the parser test and their Claude counterpart: the sessions
\* differ in model and session id, and have the same shape.
C21_Witness ==
    /\ BothReturned
    /\ ClaudeInOneEntry(lines)
    /\ CodexCallFirst(stream)
    /\ stream[1].type = "session_meta"
    /\ claudeParsed.result.model # parsed.result.model
    /\ Shape(claudeParsed.result.messages) = OneTurnShape
    /\ Shape(parsed.result.messages) = OneTurnShape

(***************************************************************************)
(* cli/export.py: the export, confirm and publish workflow                 *)
(*                                                                         *)
(* An attestation text is known by what the checks read of it: the number  *)
(* of characters left after whitespace is collapsed, the number of         *)
(* characters the collapsing removes, the substrings it contains among     *)
(* those the checks look for, and the numbers written in it. None is       *)
(* JsonNull.                                                               *)
(***************************************************************************)

MIN_ATTESTATION_CHARS == 24

MIN_MANUAL_SCAN_SESSIONS == 20

AttestationText(chars, padding, has, numbers) ==
    [chars |-> chars, padding |-> padding, has |-> has, numbers |-> numbers]

EmptyText == AttestationText(0, 0, {}, {})

\* len(value)
Length(t) == t.chars + t.padding

\* " ".join(value.split()).strip(), "" for None
_normalize_attestation_text(value) ==
    IF value = JsonNull THEN EmptyText ELSE [value EXCEPT !.padding = 0]

\* bool(value) for a string or None
Truthy(value) == value # JsonNull /\ Length(value) > 0

_extract_manual_scan_sessions(attestation) ==
    IF attestation.numbers = {} THEN JsonNull
    ELSE [int |-> CHOOSE n \in attestation.numbers : \A m \in attestation.numbers : n >= m]

SkipTokens == {"skip", "skipped", "declined", "opt out", "prefer not"}

TopicTokens == {"company", "client", "internal", "url", "domain", "tool", "name"}

OutcomeTokens == {"none", "no", "redact", "added", "updated", "configured"}

\* The words of the full name that have more than one character.
NameTokens(full_name) == IF full_name = JsonNull THEN {} ELSE full_name.has

\* The keys of the errors dictionary, with the provided texts and the count.
_collect_review_attestations(attest_asked_full_name, attest_asked_sensitive, attest_manual_scan, full_name, skip_full_name_scan) ==
    LET provided ==
            [asked_full_name |-> _normalize_attestation_text(attest_asked_full_name),
             asked_sensitive_entities |-> _normalize_attestation_text(attest_asked_sensitive),
             manual_scan_done |-> _normalize_attestation_text(attest_manual_scan)]
        fn == provided.asked_full_name
        se == provided.asked_sensitive_entities
        ma == provided.manual_scan_done
        manual_sessions == _extract_manual_scan_sessions(ma)
        fullNameError ==
            IF Length(fn) < MIN_ATTESTATION_CHARS THEN TRUE
            ELSE IF skip_full_name_scan
                 THEN "full name" \notin fn.has \/ fn.has \cap SkipTokens = {}
                 ELSE \/ "ask" \notin fn.has
                      \/ "scan" \notin fn.has
                      \/ ~(NameTokens(full_name) \subseteq fn.has)
        sensitiveError ==
            IF Length(se) < MIN_ATTESTATION_CHARS THEN TRUE
            ELSE \/ "ask" \notin se.has
                 \/ se.has \cap TopicTokens = {}
                 \/ se.has \cap OutcomeTokens = {}
        manualError ==
            IF Length(ma) < MIN_ATTESTATION_CHARS THEN TRUE
            ELSE \/ "manual" \notin ma.has
                 \/ "scan" \notin ma.has
                 \/ manual_sessions = JsonNull
                 \/ manual_sessions.int < MIN_MANUAL_SCAN_SESSIONS
    IN  [provided |-> provided,
         errors |-> (IF fullNameError THEN {"asked_full_name"} ELSE {})
                    \cup (IF sensitiveError THEN {"asked_sensitive_entities"} ELSE {})
                    \cup (IF manualError THEN {"manual_scan_done"} ELSE {}),
         manual_sessions |-> manual_sessions]

\* The normalized text and whether it is in error.
_validate_publish_attestation(attestation) ==
    LET normalized == _normalize_attestation_text(attestation)
    IN  [text |-> normalized,
         error |-> \/ Length(normalized) < MIN_ATTESTATION_CHARS
                   \/ "approv" \notin normalized.has
                   \/ ("publish" \notin normalized.has /\ "push" \notin normalized.has)]

EXPLICIT_SOURCE_CHOICES == {"claude", "codex", "both"}

\* The second component of _resolve_source_choice.
SourceExplicit(requested_source, cfg) ==
    requested_source \in EXPLICIT_SOURCE_CHOICES \/ cfg.source \in EXPLICIT_SOURCE_CHOICES

_is_dataset_globally_enabled(cfg) == cfg.dataset_enabled

NoStep == "no step"

\* How a command ends: sys.exit(1) with the error it printed, or a return.
Exit(cfg, error, step) ==
    [config |-> cfg, exit |-> 1, error |-> error, blocked_on_step |-> step,
     exported |-> FALSE, uploaded |-> FALSE]

\* Lines 1071-1090 of _run_export: the attestations of the confirm step,
\* validated again.
StoredReviewErrors(cfg) ==
    LET review_attestations == cfg.review_attestations
        review_verification == cfg.review_verification
        verified_full_name == _normalize_attestation_text(review_verification.full_name)
        collected == _collect_review_attestations(
                        review_attestations.asked_full_name,
                        review_attestations.asked_sensitive_entities,
                        review_attestations.manual_scan_done,
                        IF Truthy(verified_full_name) THEN verified_full_name ELSE JsonNull,
                        review_verification.full_name_scan_skipped)
        verified_manual_count == review_verification.manual_scan_sessions
    IN  collected.errors
        \cup (IF ~Truthy(verified_full_name) /\ ~review_verification.full_name_scan_skipped
              THEN {"asked_full_name"} ELSE {})
        \cup (IF \/ verified_manual_count = JsonNull
                 \/ verified_manual_count.int < MIN_MANUAL_SCAN_SESSIONS
              THEN {"manual_scan_done"} ELSE {})

\* The gate that lets only the publish attestation decide.
PushGateAttestationOnly(cfg, args) ==
    IF _validate_publish_attestation(args.publish_attestation).error
    THEN [error |-> "Missing or invalid publish attestation.", step |-> "Step 3/3"]
    ELSE [error |-> None, step |-> NoStep]

\* Lines 1034-1099 of _run_export: the error that blocks a push, None if none.
PushGate(cfg, args) ==
    IF args.attest_user_approved_publish /\ ~Truthy(args.publish_attestation)
    THEN [error |-> "Deprecated publish attestation flag was provided.", step |-> "Step 3/3"]
    ELSE IF cfg.stage # "confirmed"
    THEN [error |-> "You must run codeclaw confirm before pushing.", step |-> "Step 2/3"]
    ELSE IF _validate_publish_attestation(args.publish_attestation).error
    THEN [error |-> "Missing or invalid publish attestation.", step |-> "Step 3/3"]
    ELSE IF StoredReviewErrors(cfg) # {}
    THEN [error |-> "Missing or invalid review attestations from confirm step.",
          step |-> "Step 2/3"]
    ELSE [error |-> None, step |-> NoStep]

\* Lines 1104-1314 of _run_export: discovery, the export, and the upload.
\* env.fault is what the file system, the repository setting or the upload
\* make of the run.
ExportAndPush(cfg, args, env) ==
    IF env.fault = "no_sources" THEN Exit(cfg, "no session sources", NoStep)
    ELSE IF ~args.all_projects /\ ~cfg.projects_confirmed
    THEN Exit(cfg, "Project selection is not confirmed yet.", "Step 3/6")
    ELSE IF env.fault = "nothing_included" THEN Exit(cfg, "No projects to export.", NoStep)
    ELSE IF env.fault = "write_fails" THEN Exit(cfg, "cannot write to output", NoStep)
    ELSE LET reviewed == [cfg EXCEPT !.stage = "review"]
         IN  IF args.no_push \/ env.fault = "no_repo"
             THEN [config |-> reviewed, exit |-> 0, error |-> None, blocked_on_step |-> NoStep,
                   exported |-> TRUE, uploaded |-> FALSE]
             ELSE IF env.fault = "push_fails"
             THEN [config |-> reviewed, exit |-> 1, error |-> "Error uploading to Hugging Face",
                   blocked_on_step |-> NoStep, exported |-> TRUE, uploaded |-> FALSE]
             ELSE [config |-> [cfg EXCEPT !.stage = "done"], exit |-> 0, error |-> None,
                   blocked_on_step |-> NoStep, exported |-> TRUE, uploaded |-> TRUE]

_run_export(cfg, args, env) ==
    IF ~_is_dataset_globally_enabled(cfg)
    THEN Exit(cfg, "Dataset generation is disabled by user.", NoStep)
    ELSE IF ~SourceExplicit(args.source, cfg)
    THEN Exit(cfg, "Source scope is not confirmed yet.", "Step 2/6")
    ELSE IF ~args.no_push /\ PushGate(cfg, args).error # None
    THEN Exit(cfg, PushGate(cfg, args).error, PushGate(cfg, args).step)
    ELSE ExportAndPush(
            IF args.no_push THEN cfg
            ELSE [cfg EXCEPT !.publish_attestation =
                        _validate_publish_attestation(args.publish_attestation).text],
            args, env)

confirm(cfg, args, env) ==
    LET normalized_full_name == _normalize_attestation_text(args.full_name)
        collected == _collect_review_attestations(
                        args.attest_asked_full_name, args.attest_asked_sensitive,
                        args.attest_manual_scan,
                        IF Truthy(normalized_full_name) THEN normalized_full_name ELSE JsonNull,
                        args.skip_full_name_scan)
    IN  IF env.fault = "no_export_file" THEN Exit(cfg, "No export file found.", "Step 1/3")
        ELSE IF args.skip_full_name_scan /\ Truthy(normalized_full_name)
        THEN Exit(cfg, "Use either --full-name or --skip-full-name-scan, not both.", "Step 2/3")
        ELSE IF ~Truthy(normalized_full_name) /\ ~args.skip_full_name_scan
        THEN Exit(cfg, "Missing required --full-name for verification scan.", "Step 2/3")
        ELSE IF collected.errors # {}
        THEN Exit(cfg, "Missing or invalid review attestations.", "Step 2/3")
        ELSE IF env.fault = "unreadable_export_file"
        THEN Exit(cfg, "Cannot read export file", NoStep)
        ELSE [config |-> [cfg EXCEPT
                            !.stage = "confirmed",
                            !.review_attestations = collected.provided,
                            !.review_verification =
                                [full_name |-> IF args.skip_full_name_scan THEN JsonNull
                                               ELSE normalized_full_name,
                                 full_name_scan_skipped |-> args.skip_full_name_scan,
                                 manual_scan_sessions |-> collected.manual_sessions]],
              exit |-> 0, error |-> None, blocked_on_step |-> NoStep,
              exported |-> FALSE, uploaded |-> FALSE]

(* The texts, configurations and arguments of the workflow model. *)

PublishGood == AttestationText(52, 0, {"approv", "publish"}, {})

PublishPush == AttestationText(30, 0, {"approv", "push"}, {})

\* Long enough, but no approval in it.
PublishVague == AttestationText(40, 0, {"publish"}, {})

PublishShort == AttestationText(12, 0, {"approv", "push"}, {})

\* Thirty characters, twenty once the whitespace is collapsed.
PublishPadded == AttestationText(20, 10, {"approv", "publish"}, {})

JaneDoe == AttestationText(8, 0, {"jane", "doe"}, {})

FullNameGood == AttestationText(50, 0, {"ask", "scan", "full name", "jane", "doe"}, {})

\* Names nobody.
FullNameOther == AttestationText(50, 0, {"ask", "scan", "full name"}, {})

FullNameSkipped == AttestationText(60, 2, {"full name", "declined", "skip", "skipped"}, {})

SensitiveGood == AttestationText(70, 0, {"ask", "company", "client", "none", "no"}, {})

SensitiveVague == AttestationText(40, 0, {"ask"}, {})

ManualGood == AttestationText(80, 0, {"manual", "scan"}, {20})

ManualFew == AttestationText(80, 0, {"manual", "scan"}, {5, 3})

\* What confirm stores for the arguments of CONFIRM_COMMAND_EXAMPLE.
StoredGood ==
    [review_attestations |->
        [asked_full_name |-> FullNameGood, asked_sensitive_entities |-> SensitiveGood,
         manual_scan_done |-> ManualGood],
     review_verification |->
        [full_name |-> JaneDoe, full_name_scan_skipped |-> FALSE,
         manual_scan_sessions |-> [int |-> 20]]]

\* A configuration confirm never wrote to.
StoredNothing ==
    [review_attestations |->
        [asked_full_name |-> JsonNull, asked_sensitive_entities |-> JsonNull,
         manual_scan_done |-> JsonNull],
     review_verification |->
        [full_name |-> JsonNull, full_name_scan_skipped |-> FALSE,
         manual_scan_sessions |-> JsonNull]]

\* The attestations without the verification record.
StoredUnverified ==
    [review_attestations |-> StoredGood.review_attestations,
     review_verification |-> StoredNothing.review_verification]

Configs ==
    { [dataset_enabled |-> en, source |-> src, stage |-> st, projects_confirmed |-> pc,
       review_attestations |-> stored.review_attestations,
       review_verification |-> stored.review_verification,
       publish_attestation |-> JsonNull] :
        en \in BOOLEAN, src \in {None, "both"}, st \in {None, "review", "confirmed"},
        pc \in BOOLEAN, stored \in {StoredGood, StoredNothing, StoredUnverified} }

PushArgs ==
    [source |-> "auto", no_push |-> FALSE, publish_attestation |-> PublishGood,
     attest_user_approved_publish |-> FALSE, all_projects |-> TRUE]

ExportArgs ==
    { [PushArgs EXCEPT !.publish_attestation = t] :
        t \in {PublishGood, PublishPush, PublishVague, PublishShort, PublishPadded, JsonNull} }
    \cup { [PushArgs EXCEPT !.attest_user_approved_publish = TRUE, !.publish_attestation = t] :
            t \in {PublishGood, JsonNull, EmptyText} }
    \cup { [PushArgs EXCEPT !.no_push = TRUE, !.publish_attestation = JsonNull],
           [PushArgs EXCEPT !.source = "both"],
           [PushArgs EXCEPT !.all_projects = FALSE] }

ExportFaults ==
    {"none", "no_sources", "nothing_included", "write_fails", "no_repo", "push_fails"}

ConfirmExample ==
    [full_name |-> JaneDoe, skip_full_name_scan |-> FALSE,
     attest_asked_full_name |-> FullNameGood, attest_asked_sensitive |-> SensitiveGood,
     attest_manual_scan |-> ManualGood]

ConfirmArgs ==
    { ConfirmExample,
      [ConfirmExample EXCEPT !.full_name = JsonNull, !.skip_full_name_scan = TRUE,
                             !.attest_asked_full_name = FullNameSkipped],
      [ConfirmExample EXCEPT !.skip_full_name_scan = TRUE],
      [ConfirmExample EXCEPT !.full_name = JsonNull],
      [ConfirmExample EXCEPT !.attest_asked_full_name = FullNameOther],
      [ConfirmExample EXCEPT !.attest_asked_sensitive = SensitiveVague],
      [ConfirmExample EXCEPT !.attest_manual_scan = ManualFew],
      [ConfirmExample EXCEPT !.attest_manual_scan = JsonNull] }

ConfirmFaults == {"none", "no_export_file", "unreadable_export_file"}

InitExport ==
    /\ IdleRest
    /\ IdleRedact
    /\ IdleTool
    /\ IdleCodex
    /\ IdleIndex
    /\ IdleClaude
    /\ config \in Configs
    /\ run = NoResult

\* One command: the configuration it saves, and what it did.
Command(name, args, env, outcome) ==
    /\ config' = outcome.config
    /\ run' = [command |-> name, args |-> args, env |-> env, before |-> config,
               exit |-> outcome.exit, error |-> outcome.error,
               blocked_on_step |-> outcome.blocked_on_step,
               exported |-> outcome.exported, uploaded |-> outcome.uploaded]
    /\ UNCHANGED <<redactVars, toolVars, codexVars, indexVars, claudeVars, restVars>>

RunExport ==
    \E args \in ExportArgs, fault \in ExportFaults :
        Command("export", args, [fault |-> fault],
                _run_export(config, args, [fault |-> fault]))

RunConfirm ==
    \E args \in ConfirmArgs, fault \in ConfirmFaults :
        Command("confirm", args, [fault |-> fault],
                confirm(config, args, [fault |-> fault]))

NextExport == RunExport \/ RunConfirm

SpecExport == InitExport /\ [][NextExport]_vars

(***************************************************************************)
(* Properties of the workflow                                              *)
(***************************************************************************)

PushRun == run # NoResult /\ run.command = "export" /\ ~run.args.no_push

\* The three conditions of a push, on the configuration the run loaded and
\* the attestation it was given.
PushConfirmed ==
    /\ run.before.stage = "confirmed"
    /\ ~_validate_publish_attestation(run.args.publish_attestation).error
    /\ StoredReviewErrors(run.before) = {}

\* C18: an export run without --no-push exports no session and uploads
\* nothing unless the saved stage is "confirmed", the publish attestation
\* given is valid and the stored review attestations validate again;
\* otherwise it exits with status 1 and an error, which names the blocking
\* step whenever dataset generation is enabled (the error of a disabled
\* dataset names no step).
C18_NoPublishBeforeConfirm ==
    PushRun =>
        /\ (run.exported \/ run.uploaded) => PushConfirmed
        /\ ~PushConfirmed =>
              /\ run.exit = 1
              /\ run.error # None
              /\ ~run.exported
              /\ ~run.uploaded
              /\ config = run.before
              /\ run.before.dataset_enabled => run.blocked_on_step # NoStep

\* C18 as stated: every push run that is not confirmed exits with an error
\* that names the blocking step.
C18_BlockedNamesStep ==
    (PushRun /\ ~PushConfirmed) =>
        /\ run.exit = 1
        /\ ~run.exported
        /\ ~run.uploaded
        /\ run.blocked_on_step # NoStep

\* The stage is "confirmed" and the attestation given is valid, but the
\* stored review lacks its verification record: blocked on step 2/3.
C18_Witness ==
    /\ PushRun
    /\ run.before.stage = "confirmed"
    /\ ~_validate_publish_attestation(run.args.publish_attestation).error
    /\ StoredReviewErrors(run.before) # {}
    /\ run.exit = 1
    /\ run.blocked_on_step = "Step 2/3"
    /\ ~run.exported

(***************************************************************************)
(* secrets.py: redact_custom_strings                                       *)
(*                                                                         *)
(* The combined pattern is the alternation of the escaped strings, those   *)
(* of four characters or more between word boundaries; subn replaces the   *)
(* leftmost matches, trying the alternatives in list order.                *)
(***************************************************************************)

\* Bound of the custom-string model: the length of the text.
MaxCustomText == 5

CustomAlphabet == {"a", "b", " "}

CustomTexts == UNION { [1..n -> CustomAlphabet] : n \in 0..MaxCustomText }

\* Lists of custom strings: none, the empty string, one and two characters,
\* three characters, four characters.
CustomStringLists ==
    { <<>>,
      << <<>> >>,
      << <<"b">> >>,
      << <<"a", "b">>, <<>> >>,
      << <<"a", "b", "a">> >>,
      << <<"a", "b">>, <<"b", "a", "b">> >>,
      << <<"a", "b", "a">>, <<"b", "a", "b">> >>,
      << <<"a", "b", "a", "b">> >>,
      << <<"b">>, <<"a", "a", "b", "a">>, <<"a", "b", "a">> >> }

\* \w, for the characters of the model.
IsWord(c) == c # " "

\* \b at offset i of t.
WordBoundary(t, i) ==
    (i > 0 /\ IsWord(t[i])) # (i < Len(t) /\ IsWord(t[i + 1]))

\* The pattern made of target matches t at offset i.
MatchesAt(target, t, i) ==
    /\ i + Len(target) <= Len(t)
    /\ SubSeq(t, i + 1, i + Len(target)) = target
    /\ Len(target) >= 4 => WordBoundary(t, i) /\ WordBoundary(t, i + Len(target))

RECURSIVE SubnFrom(_, _, _)
\* combined.subn(REDACTED, text) from offset i on.
SubnFrom(patterns, t, i) ==
    IF i >= Len(t) THEN [text |-> <<>>, count |-> 0]
    ELSE LET hits == {k \in 1..Len(patterns) : MatchesAt(patterns[k], t, i)}
         IN  IF hits = {}
             THEN LET rest == SubnFrom(patterns, t, i + 1)
                  IN  [text |-> <<t[i + 1]>> \o rest.text, count |-> rest.count]
             ELSE LET first == CHOOSE k \in hits : \A j \in hits : k <= j
                      rest  == SubnFrom(patterns, t, i + Len(patterns[first]))
                  IN  [text |-> REDACTED \o rest.text, count |-> rest.count + 1]

\* No string is too short to be a pattern.
RedactEveryString(t, strings) ==
    LET patterns == SelectSeq(strings, LAMBDA target : target # <<>>)
    IN  IF t = <<>> \/ strings = <<>> \/ patterns = <<>>
        THEN [text |-> t, count |-> 0]
        ELSE SubnFrom(patterns, t, 0)

redact_custom_strings(t, strings) ==
    LET patterns == SelectSeq(strings, LAMBDA target : Len(target) >= 3)
    IN  IF t = <<>> \/ strings = <<>> \/ patterns = <<>>
        THEN [text |-> t, count |-> 0]
        ELSE SubnFrom(patterns, t, 0)

InitCustom ==
    /\ IdleCore
    /\ workers = NoResult
    /\ redaction = NoResult
    /\ entropy = NoResult
    /\ jobs = NoResult
    /\ \E t \in CustomTexts, strings \in CustomStringLists :
          custom = [text |-> t, strings |-> strings, result |-> NoResult]

RedactCustomStrings ==
    /\ custom.result = NoResult
    /\ custom' = [custom EXCEPT !.result = redact_custom_strings(custom.text, custom.strings)]
    /\ UNCHANGED <<coreVars, workers, redaction, entropy, jobs>>

NextCustom == RedactCustomStrings

SpecCustom == InitCustom /\ [][NextCustom]_vars

(***************************************************************************)
(* Properties of redact_custom_strings                                     *)
(***************************************************************************)

TooShort(target) == Len(target) < 3

WithoutShort(strings) == SelectSeq(strings, LAMBDA target : ~TooShort(target))

\* C25: a string shorter than 3 characters is ignored: the call returns
\* what it returns for the list without such strings, and the text
\* unchanged with count 0 when the list holds only such strings; the count
\* returned is the number of markers in the returned text.
C25_ShortStringsIgnored ==
    custom.result # NoResult =>
        /\ custom.result = redact_custom_strings(custom.text, WithoutShort(custom.strings))
        /\ (\A k \in 1..Len(custom.strings) : TooShort(custom.strings[k])) =>
              custom.result = [text |-> custom.text, count |-> 0]
        /\ custom.result.count = CountOf("[", custom.result.text)

\* A list with a one-character string and two longer ones: the text holds
\* all three, one replacement is made and the one-character string is still
\* in the returned text.
C25_Witness ==
    /\ custom.result # NoResult
    /\ \E k \in 1..Len(custom.strings) :
          /\ TooShort(custom.strings[k])
          /\ custom.strings[k] # <<>>
          /\ Contains(custom.text, custom.strings[k])
          /\ Contains(custom.result.text, custom.strings[k])
    /\ custom.result.count = 1
    /\ custom.result.text # custom.text

(***************************************************************************)
(* redactor.py and secrets.redact_session                                  *)
(*                                                                         *)
(* A session and its messages are objects of a heap, so that a change made *)
(* in place is seen through every reference. In the texts of this model a  *)
(* run of "k" is what the env_secret pattern matches, a run of "k" and "e" *)
(* with an "e" in it what the email pattern matches, and a run of "m" what *)
(* the analyzer reports as an entity.                                      *)
(***************************************************************************)

ML_MARKER ==
    <<"[", "R", "E", "D", "A", "C", "T", "E", "D", ":", "M", "L", "_", "P", "I", "I", "]">>

\* confidence_threshold and the scores of the analyzer, in hundredths.
ConfidenceThreshold == 55

RECURSIVE RunEnd(_, _, _)
\* The end of the run of characters of S that starts at offset i.
RunEnd(t, i, S) == IF i < Len(t) /\ t[i + 1] \in S THEN RunEnd(t, i + 1, S) ELSE i

RECURSIVE RunsFrom(_, _, _, _)
\* finditer: the maximal runs of S that hold a character of need.
RunsFrom(t, i, S, need) ==
    IF i >= Len(t) THEN <<>>
    ELSE IF t[i + 1] \notin S THEN RunsFrom(t, i + 1, S, need)
    ELSE LET e == RunEnd(t, i, S)
         IN  (IF \E p \in (i + 1)..e : t[p] \in need
              THEN <<[start |-> i, end |-> e]>> ELSE <<>>)
             \o RunsFrom(t, e, S, need)

\* What the patterns match in a text field.
FieldEngineOf(t) ==
    [ matches |-> << RunsFrom(t, 0, {"k"}, {"k"}),
                     RunsFrom(t, 0, {"k", "e"}, {"e"}),
                     <<>> >>,
      allowAt |-> -1,
      entropyOk |-> TRUE ]

ScanField(t) == scan_text(t, FieldEngineOf(t))

RedactField(t) == redact_text(t, FieldEngineOf(t))

\* redact_custom_strings if custom_strings is not empty.
CustomOn(t, custom_strings) ==
    IF custom_strings # <<>> THEN redact_custom_strings(t, custom_strings)
    ELSE [text |-> t, count |-> 0]

AddCount(n, r) == [text |-> r.text, count |-> n + r.count]

AfterRedactText(r, custom_strings) == AddCount(r.count, CustomOn(r.text, custom_strings))

\* redact_text, then redact_custom_strings.
RedactFieldAndCustom(t, custom_strings) == AfterRedactText(RedactField(t), custom_strings)

HasText(obj, field) == field \in DOMAIN obj /\ obj[field] # <<>>

PutInput(tu, r) == [tool_use |-> [tu EXCEPT !.input = r.text], count |-> r.count]

RedactToolUse(tu, custom_strings) ==
    IF HasText(tu, "input") THEN PutInput(tu, RedactFieldAndCustom(tu.input, custom_strings))
    ELSE [tool_use |-> tu, count |-> 0]

ConsToolUse(first, rest) ==
    [tool_uses |-> <<first.tool_use>> \o rest.tool_uses, count |-> first.count + rest.count]

RECURSIVE RedactToolUses(_, _)
\* for tool_use in msg.get("tool_uses", []): the list and the count.
RedactToolUses(tool_uses, custom_strings) ==
    IF tool_uses = <<>> THEN [tool_uses |-> <<>>, count |-> 0]
    ELSE ConsToolUse(RedactToolUse(Head(tool_uses), custom_strings),
                     RedactToolUses(Tail(tool_uses), custom_strings))

PutField(acc, field, r) ==
    [msg |-> [acc.msg EXCEPT ![field] = r.text], count |-> acc.count + r.count]

\* if msg.get(field): the field redacted in the message.
RedactTextKey(acc, field, custom_strings) ==
    IF HasText(acc.msg, field)
    THEN PutField(acc, field, RedactFieldAndCustom(acc.msg[field], custom_strings))
    ELSE acc

PutToolUses(acc, r) ==
    [msg |-> [acc.msg EXCEPT !.tool_uses = r.tool_uses], count |-> acc.count + r.count]

RedactToolUsesKey(acc, custom_strings) ==
    IF "tool_uses" \in DOMAIN acc.msg
    THEN PutToolUses(acc, RedactToolUses(acc.msg.tool_uses, custom_strings))
    ELSE acc

\* The body of the loop of redact_session for one message.
RedactMessage(msg, custom_strings) ==
    RedactToolUsesKey(
        RedactTextKey(RedactTextKey([msg |-> msg, count |-> 0], "content", custom_strings),
                      "thinking", custom_strings),
        custom_strings)

StoreRedacted(acc, ref, r) ==
    [heap |-> [acc.heap EXCEPT ![ref] = r.msg], total |-> acc.total + r.count]

RECURSIVE RedactMessagesInPlace(_, _, _)
\* for msg in session.get("messages", []): each message object is changed in place.
RedactMessagesInPlace(acc, refs, custom_strings) ==
    IF refs = <<>> THEN acc
    ELSE RedactMessagesInPlace(
            StoreRedacted(acc, Head(refs), RedactMessage(acc.heap[Head(refs)], custom_strings)),
            Tail(refs), custom_strings)

SessionAndTotal(session, r) == [heap |-> r.heap, session |-> session, total |-> r.total]

\* secrets.redact_session: returns the session it was given and the total.
redact_session(heap, session, custom_strings) ==
    SessionAndTotal(session,
        RedactMessagesInPlace([heap |-> heap, total |-> 0], heap[session].messages,
                              custom_strings))

ShallowCopyAt(heap, session, size) ==
    [heap |-> heap @@ [id \in {session + size} |-> heap[session]],
     copy |-> session + size]

\* A copy of the session object alone: the message objects are shared.
ShallowCopy(heap, session) == ShallowCopyAt(heap, session, Cardinality(DOMAIN heap))

DeepCopyAt(heap, session, size) ==
    [heap |-> heap @@ [id \in {i + size : i \in DOMAIN heap} |->
                IF id - size = session
                THEN [heap[session] EXCEPT
                        !.messages = [k \in 1..Len(@) |-> @[k] + size]]
                ELSE heap[id - size]],
     copy |-> session + size]

\* copy.deepcopy(session): a new object for the session and for each message.
DeepCopy(heap, session) == DeepCopyAt(heap, session, Cardinality(DOMAIN heap))

\* The session a reference denotes, with its messages.
SessionValue(heap, session) ==
    [messages |-> [k \in 1..Len(heap[session].messages) |-> heap[heap[session].messages[k]]]]

RECURSIVE ToolInputFields(_, _, _)
ToolInputFields(i, tool_uses, j) ==
    IF j > Len(tool_uses) THEN <<>>
    ELSE (IF HasText(tool_uses[j], "input")
          THEN <<[message |-> i, field |-> "tool_uses.input", tool_use |-> j,
                  text |-> tool_uses[j].input]>> ELSE <<>>)
         \o ToolInputFields(i, tool_uses, j + 1)

RECURSIVE FieldsFrom(_, _)
FieldsFrom(messages, i) ==
    IF i > Len(messages) THEN <<>>
    ELSE (IF HasText(messages[i], "content")
          THEN <<[message |-> i, field |-> "content", tool_use |-> 0,
                  text |-> messages[i].content]>> ELSE <<>>)
         \o (IF HasText(messages[i], "thinking")
             THEN <<[message |-> i, field |-> "thinking", tool_use |-> 0,
                     text |-> messages[i].thinking]>> ELSE <<>>)
         \o ToolInputFields(i, ToolUsesOf(messages[i]), 1)
         \o FieldsFrom(messages, i + 1)

_iter_text_fields(heap, session) == FieldsFrom(SessionValue(heap, session).messages, 1)

\* What the import of presidio_analyzer and AnalyzerEngine() may do.
ImportOutcomes == {"ok", "ImportError", "RuntimeError"}

InitOutcomes == {"ok", "raises"}

\* What analyzer.analyze may do in one call: report each entity with a high
\* or a low score, report nothing, or raise.
AnalyzeOutcomes == {"finds", "unsure", "nothing", "raises"}

NoAnalyzer == [_ml_ready |-> FALSE, _analyzer |-> None]

\* RedactionEngine.__init__: the object, or the exception that leaves it.
_init_ml_backend(mode, env) ==
    IF mode = "regex" THEN [raised |-> None, engine |-> [engine |-> mode] @@ NoAnalyzer]
    ELSE IF env.import = "ImportError"
    THEN [raised |-> None, engine |-> [engine |-> mode] @@ NoAnalyzer]
    ELSE IF env.import # "ok" THEN [raised |-> env.import, engine |-> NoResult]
    ELSE IF env.init # "ok"
    THEN [raised |-> None, engine |-> [engine |-> mode] @@ NoAnalyzer]
    ELSE [raised |-> None,
          engine |-> [engine |-> mode, _ml_ready |-> TRUE, _analyzer |-> "AnalyzerEngine"]]

ml_available(eng) == eng._ml_ready /\ eng._analyzer # None

MlFindings(t, spans, score) ==
    [k \in 1..Len(spans) |->
        [source |-> "ml", category |-> "PERSON",
         text |-> Slice(t, spans[k].start, spans[k].end), score |-> score,
         start |-> spans[k].start, end |-> spans[k].end]]

\* The results of analyze at or above the threshold, as findings.
MlResults(t, analyze) ==
    IF analyze = "nothing" THEN <<>>
    ELSE IF analyze = "finds" /\ 90 >= ConfidenceThreshold
    THEN MlFindings(t, RunsFrom(t, 0, {"m"}, {"m"}), 90)
    ELSE IF analyze # "finds" /\ 30 >= ConfidenceThreshold
    THEN MlFindings(t, RunsFrom(t, 0, {"m"}, {"m"}), 30)
    ELSE <<>>

_scan_ml(eng, t, analyze) ==
    IF ~ml_available(eng) THEN <<>>
    ELSE IF analyze = "raises" THEN <<>>
    ELSE MlResults(t, analyze)

RECURSIVE DedupeFindingsFrom(_, _)
DedupeFindingsFrom(out, findings) ==
    IF findings = <<>> THEN out
    ELSE LET f == Head(findings)
         IN  DedupeFindingsFrom(
                IF \E k \in 1..Len(out) :
                      /\ out[k].source = f.source
                      /\ out[k].category = f.category
                      /\ out[k].text = f.text
                THEN out ELSE Append(out, f),
                Tail(findings))

_dedupe_findings(findings) == DedupeFindingsFrom(<<>>, findings)

RegexFindings(t, found) ==
    [k \in 1..Len(found) |->
        [source |-> "regex", category |-> found[k].type,
         text |-> Slice(t, found[k].start, found[k].end), score |-> 100,
         start |-> found[k].start, end |-> found[k].end]]

\* RedactionEngine.scan
EngineScanText(eng, t, analyze) ==
    IF t = <<>> THEN <<>>
    ELSE IF eng.engine = "regex" THEN _dedupe_findings(RegexFindings(t, ScanField(t)))
    ELSE _dedupe_findings(RegexFindings(t, ScanField(t)) \o _scan_ml(eng, t, analyze))

RECURSIVE ReplaceAll(_, _, _)
\* str.replace(old, new), old not empty.
ReplaceAll(t, old, new) ==
    IF Len(t) < Len(old) THEN t
    ELSE IF SubSeq(t, 1, Len(old)) = old
         THEN new \o ReplaceAll(SubSeq(t, Len(old) + 1, Len(t)), old, new)
         ELSE <<Head(t)>> \o ReplaceAll(Tail(t), old, new)

RECURSIVE ApplyMl(_, _)
\* The loop over the findings of source ml.
ApplyMl(acc, findings) ==
    IF findings = <<>> THEN acc
    ELSE LET f == Head(findings)
         IN  ApplyMl(IF f.source = "ml" /\ f.text # <<>> /\ Contains(acc.text, f.text)
                     THEN [text |-> ReplaceAll(acc.text, f.text, ML_MARKER),
                           applied |-> acc.applied + 1]
                     ELSE acc,
                     Tail(findings))

TextCountFindings(base_count, custom_r, ml, findings) ==
    [text |-> ml.text, count |-> base_count + custom_r.count + ml.applied,
     findings |-> findings]

AfterCustom(base_count, custom_r, findings) ==
    TextCountFindings(base_count, custom_r,
                      ApplyMl([text |-> custom_r.text, applied |-> 0], findings), findings)

AfterBaseline(base, custom_strings, findings) ==
    AfterCustom(base.count, CustomOn(base.text, custom_strings), findings)

\* RedactionEngine.redact_text
EngineRedactField(eng, t, custom_strings, analyze) ==
    AfterBaseline(RedactField(t), custom_strings, EngineScanText(eng, t, analyze))

Positive(n) == IF n > 0 THEN n ELSE 0

RECURSIVE ExtraCount(_, _, _, _)
\* extra_count += max(0, count - len(scan_text(text))) over the fields.
ExtraCount(eng, fields, custom_strings, analyze) ==
    IF fields = <<>> THEN 0
    ELSE Positive(EngineRedactField(eng, Head(fields).text, custom_strings, analyze).count
                     - Len(ScanField(Head(fields).text)))
            + ExtraCount(eng, Tail(fields), custom_strings, analyze)

FieldFindings(f, findings) ==
    [k \in 1..Len(findings) |->
        [message |-> f.message, field |-> f.field, tool_use |-> f.tool_use,
         source |-> findings[k].source, category |-> findings[k].category,
         score |-> findings[k].score, text |-> Slice(findings[k].text, 0, 120)]]

RECURSIVE MergedFindings(_, _, _, _)
MergedFindings(eng, fields, custom_strings, analyze) ==
    IF fields = <<>> THEN <<>>
    ELSE FieldFindings(Head(fields), EngineScanText(eng, Head(fields).text, analyze))
            \o MergedFindings(eng, Tail(fields), custom_strings, analyze)

WithEngine(done, fields, custom_strings, eng, analyze) ==
    IF eng = NoResult
    THEN [heap |-> done.heap, session |-> done.session, count |-> done.total,
          findings |-> <<>>]
    ELSE [heap |-> done.heap, session |-> done.session,
          count |-> done.total + ExtraCount(eng, fields, custom_strings, analyze),
          findings |-> MergedFindings(eng, fields, custom_strings, analyze)]

AfterRedactSession(done, session, custom_strings, eng, analyze) ==
    WithEngine(done, _iter_text_fields(done.heap, session), custom_strings, eng, analyze)

\* redact_session_with_findings, for a way to copy the session; eng is
\* NoResult when no engine is passed.
RedactWithFindingsBy(copied, session, custom_strings, eng, analyze) ==
    AfterRedactSession(redact_session(copied.heap, copied.copy, custom_strings),
                       session, custom_strings, eng, analyze)

\* The session redacted through a copy that shares its messages.
RedactThroughShallowCopy(heap, session, custom_strings, eng, analyze) ==
    RedactWithFindingsBy(ShallowCopy(heap, session), session, custom_strings, eng, analyze)

redact_session_with_findings(heap, session, custom_strings, eng, analyze) ==
    RedactWithFindingsBy(DeepCopy(heap, session), session, custom_strings, eng, analyze)

\* The analyzer returned a result whose score is not a number: float(score)
\* is evaluated after the try block of _scan_ml.
ScanRaises(eng, t, analyze) ==
    t # <<>> /\ eng.engine # "regex" /\ ml_available(eng) /\ analyze = "malformed"

MaxMessages == 2

TextPlain == <<"a", "b">>

TextName == <<"a", "b", "a", " ", "b">>

TextKey == <<"a", " ", "k", "k">>

TextOverlap == <<"k", "k", "e">>

TextMl == <<"m", "m", " ", "a">>

TextAll == <<"k", " ", "a", "b", "a", " ", "m">>

FieldTexts == {<<>>, TextPlain, TextName, TextKey, TextOverlap, TextMl, TextAll}

SessionMessages ==
    { [role |-> "user", content |-> TextAll],
      [role |-> "assistant", content |-> TextKey, thinking |-> TextMl,
       tool_uses |-> <<[tool |-> "Bash", input |-> TextOverlap]>>],
      [role |-> "assistant", content |-> <<>>,
       tool_uses |-> <<[tool |-> "Read", input |-> TextPlain]>>] }

SessionCustomStrings == { <<>>, << <<"a", "b", "a">> >>, << <<"a", "b">> >> }

\* The heap that holds one session, object 1, and its messages.
HeapOf(messages) ==
    [id \in 1..(Len(messages) + 1) |->
        IF id = 1
        THEN [session_id |-> "s1", messages |-> [k \in 1..Len(messages) |-> k + 1]]
        ELSE messages[id - 1]]

InitRedaction ==
    /\ IdleCore
    /\ workers = NoResult
    /\ custom = NoResult
    /\ entropy = NoResult
    /\ jobs = NoResult
    /\ \E messages \in UNION { [1..n -> SessionMessages] : n \in 1..MaxMessages },
          strings \in SessionCustomStrings,
          import \in ImportOutcomes, init \in InitOutcomes :
          redaction = [ env |-> [import |-> import, init |-> init],
                        constructed |-> NoResult,
                        heap |-> HeapOf(messages),
                        session |-> 1,
                        custom_strings |-> strings,
                        call |-> NoResult ]

\* RedactionEngine(engine=mode)
Construct ==
    /\ redaction.constructed = NoResult
    /\ redaction.call = NoResult
    /\ \E mode \in {"auto", "regex"} :
          redaction' = [redaction EXCEPT !.constructed = _init_ml_backend(mode, redaction.env)]
    /\ UNCHANGED <<coreVars, workers, custom, entropy, jobs>>

HasEngine == redaction.constructed # NoResult /\ redaction.constructed.raised = None

\* engine.scan(text)
EngineScan ==
    /\ HasEngine
    /\ redaction.call = NoResult
    /\ \E t \in FieldTexts, analyze \in AnalyzeOutcomes \cup {"malformed"} :
          redaction' = [redaction EXCEPT !.call =
             IF ScanRaises(redaction.constructed.engine, t, analyze)
             THEN [op |-> "scan", text |-> t, analyze |-> analyze, raised |-> "ValueError"]
             ELSE [op |-> "scan", text |-> t, analyze |-> analyze, raised |-> None,
                   findings |-> EngineScanText(redaction.constructed.engine, t, analyze)]]
    /\ UNCHANGED <<coreVars, workers, custom, entropy, jobs>>

RedactTextCall(t, analyze, r) ==
    [op |-> "redact_text", text |-> t, analyze |-> analyze, raised |-> None,
     redacted |-> r.text, count |-> r.count, findings |-> r.findings]

\* engine.redact_text(text, custom_strings)
EngineRedactText ==
    /\ HasEngine
    /\ redaction.call = NoResult
    /\ \E t \in FieldTexts, analyze \in AnalyzeOutcomes \cup {"malformed"} :
          redaction' = [redaction EXCEPT !.call =
             IF ScanRaises(redaction.constructed.engine, t, analyze)
             THEN [op |-> "redact_text", text |-> t, analyze |-> analyze,
                   raised |-> "ValueError"]
             ELSE RedactTextCall(t, analyze,
                     EngineRedactField(redaction.constructed.engine, t,
                                       redaction.custom_strings, analyze))]
    /\ UNCHANGED <<coreVars, workers, custom, entropy, jobs>>

AfterCall(state, op, eng, analyze, r) ==
    [state EXCEPT
        !.heap = r.heap,
        !.call = [op |-> op, raised |-> None, engine |-> eng, analyze |-> analyze,
                  before |-> state.heap, returned |-> r.session, count |-> r.count]]

PlainResult(r) == [heap |-> r.heap, session |-> r.session, count |-> r.total]

\* redact_session(session, custom_strings) on the caller's own session.
RedactSession ==
    /\ redaction.call = NoResult
    /\ redaction' = AfterCall(redaction, "redact_session", NoResult, "nothing",
                      PlainResult(redact_session(redaction.heap, redaction.session,
                                                 redaction.custom_strings)))
    /\ UNCHANGED <<coreVars, workers, custom, entropy, jobs>>

AfterCallWithFindings(state, eng, analyze, r) ==
    [AfterCall(state, "redact_session_with_findings", eng, analyze, r) EXCEPT
        !.call = @ @@ [findings |-> r.findings]]

\* A field of the session makes the scan of the engine raise.
SessionScanRaises(eng, fields, analyze) ==
    eng # NoResult /\ \E k \in 1..Len(fields) : ScanRaises(eng, fields[k].text, analyze)

\* redact_session_with_findings(session, custom_strings, engine), with no
\* engine or with the one that was constructed.
RedactSessionWithFindings ==
    /\ redaction.call = NoResult
    /\ \E eng \in {NoResult} \cup (IF HasEngine THEN {redaction.constructed.engine} ELSE {}),
          analyze \in AnalyzeOutcomes \cup {"malformed"} :
          IF SessionScanRaises(eng, _iter_text_fields(redaction.heap, redaction.session),
                               analyze)
          THEN redaction' = [redaction EXCEPT
                 !.call = [op |-> "redact_session_with_findings", raised |-> "ValueError",
                           engine |-> eng, analyze |-> analyze,
                           before |-> redaction.heap]]
          ELSE redaction' = AfterCallWithFindings(redaction, eng, analyze,
                               redact_session_with_findings(redaction.heap, redaction.session,
                                   redaction.custom_strings, eng, analyze))
    /\ UNCHANGED <<coreVars, workers, custom, entropy, jobs>>

NextRedaction ==
    \/ Construct
    \/ EngineScan
    \/ EngineRedactText
    \/ RedactSession
    \/ RedactSessionWithFindings

SpecRedaction == InitRedaction /\ [][NextRedaction]_vars

(***************************************************************************)
(* Properties of the redaction of a session                                *)
(***************************************************************************)

SessionRedacted ==
    /\ redaction # NoResult
    /\ redaction.call # NoResult
    /\ redaction.call.op = "redact_session_with_findings"
    /\ redaction.call.raised = None

\* What redaction makes of a session value, computed without any heap.
RedactedValue(value, custom_strings) ==
    [messages |-> [k \in 1..Len(value.messages) |->
                      RedactMessage(value.messages[k], custom_strings).msg]]

\* C24: redact_session_with_findings leaves the session it was given as it
\* was: every object the caller could reach before the call has the value it
\* had. The session it returns is another object that shares no message with
\* the caller's, and holds the redaction of the caller's session.
C24_CallerSessionUntouched ==
    SessionRedacted =>
        LET before   == redaction.call.before
            returned == redaction.call.returned
        IN  /\ \A id \in DOMAIN before : redaction.heap[id] = before[id]
            /\ SessionValue(redaction.heap, redaction.session)
                  = SessionValue(before, redaction.session)
            /\ returned # redaction.session
            /\ \A k \in 1..Len(redaction.heap[returned].messages) :
                  redaction.heap[returned].messages[k] \notin DOMAIN before
            /\ SessionValue(redaction.heap, returned)
                  = RedactedValue(SessionValue(before, redaction.session),
                                  redaction.custom_strings)

\* A call that replaced something: the returned session differs from the caller's.
C24_Witness ==
    /\ SessionRedacted
    /\ SessionValue(redaction.heap, redaction.call.returned)
          # SessionValue(redaction.call.before, redaction.session)
    /\ SessionValue(redaction.heap, redaction.session)
          = SessionValue(redaction.call.before, redaction.session)

RECURSIVE MarkersInToolUses(_)
MarkersInToolUses(tool_uses) ==
    IF tool_uses = <<>> THEN 0
    ELSE (IF "input" \in DOMAIN Head(tool_uses) THEN CountOf("[", Head(tool_uses).input) ELSE 0)
         + MarkersInToolUses(Tail(tool_uses))

RECURSIVE MarkersIn(_)
\* The markers in the text fields of a list of messages; no text of the
\* sessions of this model holds a bracket before it is redacted.
MarkersIn(messages) ==
    IF messages = <<>> THEN 0
    ELSE LET m == Head(messages)
         IN  (IF "content" \in DOMAIN m THEN CountOf("[", m.content) ELSE 0)
             + (IF "thinking" \in DOMAIN m THEN CountOf("[", m.thinking) ELSE 0)
             + MarkersInToolUses(ToolUsesOf(m))
             + MarkersIn(Tail(messages))

NoMlFindings ==
    \A k \in 1..Len(redaction.call.findings) : redaction.call.findings[k].source # "ml"

\* C30: the count returned by redact_session_with_findings is the number of
\* replacements in the session it returns, with or without an engine; with
\* an engine that yields no ML finding it is the count of redact_session.
C30_CountIsReplacements ==
    SessionRedacted =>
        /\ redaction.call.count
              = MarkersIn(SessionValue(redaction.heap, redaction.call.returned).messages)
        /\ (redaction.call.engine # NoResult /\ NoMlFindings) =>
              redaction.call.count
                 = redact_session(redaction.call.before, redaction.session,
                                  redaction.custom_strings).total

\* The part of C30 that holds: without an engine the count is the number of markers.
CountWithoutEngine ==
    (SessionRedacted /\ redaction.call.engine = NoResult) =>
        redaction.call.count
           = MarkersIn(SessionValue(redaction.heap, redaction.call.returned).messages)

MlCall ==
    /\ redaction # NoResult
    /\ redaction.call # NoResult
    /\ redaction.call.op \in {"scan", "redact_text", "redact_session_with_findings"}

\* C23: no failure of the ML bridge reaches a caller: the constructor never
\* raises, and neither does a scan, a redact_text or a session redaction.
C23_NoMlFailureReachesCaller ==
    /\ (redaction # NoResult /\ redaction.constructed # NoResult) =>
          redaction.constructed.raised = None
    /\ MlCall => redaction.call.raised = None

\* The failures the code does absorb: a missing module or a failed
\* AnalyzerEngine() leaves an engine without ML, and a raising analyze
\* leaves the regex findings.
AbsorbedFailures ==
    /\ (/\ redaction # NoResult
        /\ redaction.constructed # NoResult
        /\ (redaction.env.import = "ImportError"
              \/ (redaction.env.import = "ok" /\ redaction.env.init = "raises"))) =>
          /\ redaction.constructed.raised = None
          /\ ~ml_available(redaction.constructed.engine)
    /\ (MlCall /\ redaction.call.op = "scan" /\ redaction.call.analyze = "raises") =>
          /\ redaction.call.raised = None
          /\ \A k \in 1..Len(redaction.call.findings) :
                redaction.call.findings[k].source = "regex"

(***************************************************************************)
(* Sessions normalized and redacted by two threads                         *)
(*                                                                         *)
(* Each thread runs parse_project_sessions for a project and redacts the   *)
(* sessions it got, one entry or one session at a step. The threads share  *)
(* the files and the module global _CODEX_PROJECT_INDEX; the parse state   *)
(* and the parsed sessions are objects each call creates for itself.       *)
(***************************************************************************)

Threads == {1, 2}

ParallelMeta == CHOOSE meta \in CodexMeta : meta # <<>>

ParallelSays(k) == [CodexSays(k) EXCEPT !.message = <<"o", "k">>]

ParallelLogs ==
    { <<CodexAsk(1), ParallelSays(2)>>,
      ParallelMeta \o <<CodexAsk(3)>>,
      ParallelMeta \o <<CodexAsk(3), CodexCall(4), ParallelSays(5)>> }

\* One parse state for all the threads.
StateOfFirstThread(ws, w) == IF ws[1].state # NoResult THEN ws[1].state ELSE ws[w].state

\* state = _CodexParseState(...): the state of the call of thread w.
OwnState(ws, w) == ws[w].state

RECURSIVE RedactionTotal(_, _)
RedactionTotal(messages, custom_strings) ==
    IF messages = <<>> THEN 0
    ELSE RedactMessage(Head(messages), custom_strings).count
            + RedactionTotal(Tail(messages), custom_strings)

\* redact_session on a parsed session, no custom strings.
RedactParsed(session) ==
    [session EXCEPT !.messages =
        [k \in 1..Len(@) |-> RedactMessage(@[k], <<>>).msg]]

InitParallel ==
    /\ IdleCore
    /\ redaction = NoResult
    /\ custom = NoResult
    /\ entropy = NoResult
    /\ jobs = NoResult
    /\ \E files \in [Range(FileNames) -> ParallelLogs],
          keys \in [Threads -> {CwdA, UNKNOWN_CODEX_CWD}],
          cached \in BOOLEAN :
          workers = [ disk |-> files,
                      index |-> IF cached THEN _build_codex_project_index(files)
                                ELSE EmptyIndex,
                      w |-> [t \in Threads |->
                               [ key |-> keys[t], pc |-> "call", files |-> <<>>,
                                 pos |-> 0, state |-> NoResult, sessions |-> <<>>,
                                 redacted |-> 0, total |-> 0 ]] ]

OtherVarsOfParallel == <<coreVars, redaction, custom, entropy, jobs>>

\* _get_codex_project_index(): the global is tested and, if empty, rebound.
LookupIndex(t) ==
    /\ workers.w[t].pc = "call"
    /\ workers' = [workers EXCEPT
          !.index = _get_codex_project_index(workers.index, workers.disk, FALSE),
          !.w[t].pc = "return"]
    /\ UNCHANGED OtherVarsOfParallel

\* return _CODEX_PROJECT_INDEX, then index.get(project_dir_name, []).
ReturnIndex(t) ==
    /\ workers.w[t].pc = "return"
    /\ workers' = [workers EXCEPT
          !.w[t].files = workers.index[workers.w[t].key],
          !.w[t].pc = "open"]
    /\ UNCHANGED OtherVarsOfParallel

\* Another caller lists the projects: _get_codex_project_index(refresh=True).
RefreshIndex ==
    /\ \E t \in Threads : workers.w[t].pc # "done"
    /\ workers.index # _build_codex_project_index(workers.disk)
    /\ workers' = [workers EXCEPT
          !.index = _get_codex_project_index(workers.index, workers.disk, TRUE)]
    /\ UNCHANGED OtherVarsOfParallel

\* The next file of the loop is opened with a new parse state.
OpenFile(t) ==
    /\ workers.w[t].pc = "open"
    /\ workers.w[t].files # <<>>
    /\ workers' = [workers EXCEPT
          !.w[t].state = NewCodexParseState,
          !.w[t].pos = 0,
          !.w[t].pc = "read"]
    /\ UNCHANGED OtherVarsOfParallel

\* One entry of the file handled.
ReadFileEntry(t) ==
    /\ workers.w[t].pc = "read"
    /\ workers.w[t].pos < Len(workers.disk[Head(workers.w[t].files)])
    /\ workers' = [workers EXCEPT
          !.w[t].state = CodexEntry(OwnState(workers.w, t),
                                    workers.disk[Head(workers.w[t].files)][workers.w[t].pos + 1],
                                    TRUE),
          !.w[t].pos = @ + 1]
    /\ UNCHANGED OtherVarsOfParallel

\* The end of the file: the session, if any, is appended to sessions.
CloseFile(t) ==
    /\ workers.w[t].pc = "read"
    /\ workers.w[t].pos = Len(workers.disk[Head(workers.w[t].files)])
    /\ LET key == workers.w[t].key
           got == EndResult(OwnState(workers.w, t), key)
       IN  workers' = [workers EXCEPT
              !.w[t].sessions =
                 IF got # Absent /\ got.messages # <<>>
                 THEN Append(@, [file |-> Head(workers.w[t].files),
                                 session |-> got @@ [project |-> _build_codex_project_name(key),
                                                     source |-> "codex"]])
                 ELSE @,
              !.w[t].files = Tail(@),
              !.w[t].state = NoResult,
              !.w[t].pc = "open"]
    /\ UNCHANGED OtherVarsOfParallel

\* The loop over the files has ended.
ParsedAll(t) ==
    /\ workers.w[t].pc = "open"
    /\ workers.w[t].files = <<>>
    /\ workers' = [workers EXCEPT !.w[t].pc = "redact"]
    /\ UNCHANGED OtherVarsOfParallel

\* redact_session on the next session of the thread.
RedactNextSession(t) ==
    /\ workers.w[t].pc = "redact"
    /\ workers.w[t].redacted < Len(workers.w[t].sessions)
    /\ LET k == workers.w[t].redacted + 1
           s == workers.w[t].sessions[k].session
       IN  workers' = [workers EXCEPT
              !.w[t].sessions[k].session = RedactParsed(s),
              !.w[t].total = @ + RedactionTotal(s.messages, <<>>),
              !.w[t].redacted = k]
    /\ UNCHANGED OtherVarsOfParallel

RedactedAll(t) ==
    /\ workers.w[t].pc = "redact"
    /\ workers.w[t].redacted = Len(workers.w[t].sessions)
    /\ workers' = [workers EXCEPT !.w[t].pc = "done"]
    /\ UNCHANGED OtherVarsOfParallel

NextParallel ==
    \/ RefreshIndex
    \/ \E t \in Threads : LookupIndex(t)
    \/ \E t \in Threads : ReturnIndex(t)
    \/ \E t \in Threads : OpenFile(t)
    \/ \E t \in Threads : ReadFileEntry(t)
    \/ \E t \in Threads : CloseFile(t)
    \/ \E t \in Threads : ParsedAll(t)
    \/ \E t \in Threads : RedactNextSession(t)
    \/ \E t \in Threads : RedactedAll(t)

SpecParallel == InitParallel /\ [][NextParallel]_vars

(***************************************************************************)
(* Properties of the parallel run                                          *)
(***************************************************************************)

\* The sessions of a project parsed and redacted with no other thread.
RECURSIVE RedactEach(_)
RedactEach(found) ==
    IF found = <<>> THEN <<>>
    ELSE <<[file |-> Head(found).file, session |-> RedactParsed(Head(found).session)]>>
            \o RedactEach(Tail(found))

RECURSIVE TotalOfEach(_)
TotalOfEach(found) ==
    IF found = <<>> THEN 0
    ELSE RedactionTotal(Head(found).session.messages, <<>>) + TotalOfEach(Tail(found))

Alone(files, key) == ParseAll(_build_codex_project_index(files)[key], files, key)

\* C22: under every interleaving of the threads, what a thread ends with is
\* what its project gives when it is parsed and redacted alone, session by
\* session, and the count of its redactions is the count of that run.
C22_SameAsAlone ==
    workers # NoResult =>
        \A t \in Threads :
            workers.w[t].pc = "done" =>
                /\ workers.w[t].sessions = RedactEach(Alone(workers.disk, workers.w[t].key))
                /\ workers.w[t].total = TotalOfEach(Alone(workers.disk, workers.w[t].key))

\* Both threads are done, each with a session in which something was
\* redacted, and the sessions are of different files.
C22_Witness ==
    /\ workers # NoResult
    /\ \A t \in Threads : workers.w[t].pc = "done" /\ workers.w[t].total > 0
    /\ workers.w[1].sessions # workers.w[2].sessions
    /\ workers.w[1].key # workers.w[2].key

(***************************************************************************)
(* cli/export.py: _scan_high_entropy_strings                               *)
(***************************************************************************)

\* [A-Za-z0-9_/+=.-]
CandidateChars ==
    {
      "A", "B", "C", "D", "E", "F", "G", "H", "I", "J", "K", "L", "M", "N",
      "O", "P", "Q", "R", "S", "T", "U", "V", "W", "X", "Y", "Z", "a", "b",
      "c", "d", "e", "f", "g", "h", "i", "j", "k", "l", "m", "n", "o", "p",
      "q", "r", "s", "t", "u", "v", "w", "x", "y", "z", "0", "1", "2", "3",
      "4", "5", "6", "7", "8", "9", "_", "/", "+", "=", ".", "-" }

UpperChars ==
    {
      "A", "B", "C", "D", "E", "F", "G", "H", "I", "J", "K", "L", "M", "N",
      "O", "P", "Q", "R", "S", "T", "U", "V", "W", "X", "Y", "Z" }

LowerChars ==
    {
      "a", "b", "c", "d", "e", "f", "g", "h", "i", "j", "k", "l", "m", "n",
      "o", "p", "q", "r", "s", "t", "u", "v", "w", "x", "y", "z" }

DigitSet == Range(DigitChars)

HexChars == DigitSet \cup {"a", "b", "c", "d", "e", "f", "A", "B", "C", "D", "E", "F"}

_KNOWN_PREFIXES ==
    {
      <<"e", "y", "J">>, <<"g", "h", "p", "_">>, <<"g", "h", "o", "_">>,
      <<"g", "h", "s", "_">>, <<"g", "h", "r", "_">>, <<"s", "k", "-">>,
      <<"h", "f", "_">>, <<"A", "K", "I", "A">>, <<"p", "y", "p", "i", "-">>,
      <<"n", "p", "m", "_">>, <<"x", "o", "x">> }

_BENIGN_PREFIXES ==
    {
      <<"h", "t", "t", "p", "s", ":", "/", "/">>,
      <<"h", "t", "t", "p", ":", "/", "/">>,
      <<"s", "h", "a", "2", "5", "6", "-">>,
      <<"s", "h", "a", "3", "8", "4", "-">>,
      <<"s", "h", "a", "5", "1", "2", "-">>, <<"s", "h", "a", "1", "-">>,
      <<"d", "a", "t", "a", ":">>, <<"f", "i", "l", "e", ":", "/", "/">>,
      <<"m", "a", "i", "l", "t", "o", ":">> }

_BENIGN_SUBSTRINGS ==
    {
      <<"n", "o", "d", "e", "_", "m", "o", "d", "u", "l", "e", "s">>,
      <<"[", "R", "E", "D", "A", "C", "T", "E", "D", "]">>,
      <<"p", "a", "c", "k", "a", "g", "e", "-", "l", "o", "c", "k">>,
      <<"w", "e", "b", "p", "a", "c", "k">>, <<"b", "a", "b", "e", "l">>,
      <<"e", "s", "l", "i", "n", "t">>,
      <<".", "c", "h", "u", "n", "k", ".">>,
      <<"v", "e", "n", "d", "o", "r", "/">>, <<"d", "i", "s", "t", "/">>,
      <<"b", "u", "i", "l", "d", "/">> }

_FILE_EXTENSIONS ==
    {
      <<".", "p", "y">>, <<".", "j", "s">>, <<".", "t", "s">>,
      <<".", "t", "s", "x">>, <<".", "j", "s", "x">>, <<".", "c", "s", "s">>,
      <<".", "h", "t", "m", "l">>, <<".", "j", "s", "o", "n">>,
      <<".", "y", "a", "m", "l">>, <<".", "y", "m", "l">>,
      <<".", "t", "o", "m", "l">>, <<".", "m", "d">>, <<".", "r", "s", "t">>,
      <<".", "t", "x", "t">>, <<".", "s", "h">>, <<".", "g", "o">>,
      <<".", "r", "s">>, <<".", "j", "a", "v", "a">>, <<".", "r", "b">>,
      <<".", "p", "h", "p">>, <<".", "c">>, <<".", "h">>,
      <<".", "c", "p", "p">>, <<".", "h", "p", "p">>,
      <<".", "s", "w", "i", "f", "t">>, <<".", "k", "t">>,
      <<".", "l", "o", "c", "k">>, <<".", "c", "f", "g">>,
      <<".", "i", "n", "i">>, <<".", "x", "m", "l">>, <<".", "s", "v", "g">>,
      <<".", "p", "n", "g">>, <<".", "j", "p", "g">>, <<".", "g", "i", "f">>,
      <<".", "w", "o", "f", "f">>, <<".", "t", "t", "f">>,
      <<".", "m", "a", "p">>, <<".", "v", "u", "e">>,
      <<".", "s", "c", "s", "s">>, <<".", "l", "e", "s", "s">>,
      <<".", "s", "q", "l">>, <<".", "e", "n", "v">>, <<".", "l", "o", "g">> }

WordRandom ==
    <<"a", "B", "3", "d", "E", "5", "g", "H", "7", "j", "K", "9", "m", "N", "1", "p", "Q", "2", "r", "S", "4">>

WordRandomer ==
    <<"Z", "x", "9", "Y", "w", "8", "V", "u", "7", "T", "s", "6", "R", "q", "5", "P", "o", "4", "N", "m", "3", "L", "k", "2">>

WordTie ==
    <<"Q", "w", "1", "E", "r", "2", "T", "y", "3", "U", "i", "4", "O", "p", "5", "A", "s", "6", "D", "f", "7">>

WordHex ==
    <<"0", "1", "2", "3", "4", "5", "6", "7", "8", "9", "a", "b", "c", "d", "e", "f", "0", "1", "2", "3", "4", "5", "6", "7", "8", "9", "a", "b", "c", "d", "e", "f", "0", "1", "2", "3", "4", "5", "6", "7">>

WordToken ==
    <<"g", "h", "p", "_", "a", "B", "3", "d", "E", "5", "g", "H", "7", "j", "K", "9", "m", "N", "1", "p", "Q", "2", "r", "S", "4">>

WordShort == <<"h", "e", "l", "l", "o">>

WordRepeats ==
    <<"A", "a", "1", "A", "a", "1", "A", "a", "1", "A", "a", "1", "A", "a", "1", "A", "a", "1", "A", "a", "1">>

Vocabulary == {WordRandom, WordRandomer, WordTie, WordHex, WordToken, WordShort, WordRepeats}

\* _shannon_entropy of the words of the vocabulary, in ten-thousandths.
_shannon_entropy(token) ==
    CASE token = WordRandom -> 43923
      [] token = WordRandomer -> 45849
      [] token = WordTie -> 43923
      [] token = WordHex -> 39709
      [] token = WordToken -> 44838
      [] token = WordShort -> 19219
      [] token = WordRepeats -> 15849
      [] OTHER -> 0
MaxWords == 3

MaxResults == 2

StartsWith(t, p) == Len(p) <= Len(t) /\ SubSeq(t, 1, Len(p)) = p

\* str.lower() on the characters of a candidate.
LowerChar(c) ==
    IF c \in UpperChars
    THEN (CHOOSE p \in {<<"A", "a">>, <<"B", "b">>, <<"C", "c">>, <<"D", "d">>,
                        <<"E", "e">>, <<"F", "f">>, <<"G", "g">>, <<"H", "h">>,
                        <<"I", "i">>, <<"J", "j">>, <<"K", "k">>, <<"L", "l">>,
                        <<"M", "m">>, <<"N", "n">>, <<"O", "o">>, <<"P", "p">>,
                        <<"Q", "q">>, <<"R", "r">>, <<"S", "s">>, <<"T", "t">>,
                        <<"U", "u">>, <<"V", "v">>, <<"W", "w">>, <<"X", "x">>,
                        <<"Y", "y">>, <<"Z", "z">>} : p[1] = c)[2]
    ELSE c

LowerText(t) == [i \in 1..Len(t) |-> LowerChar(t[i])]

\* _HEX_RE
HexOnly(t) == t # <<>> /\ \A i \in 1..Len(t) : t[i] \in HexChars

RECURSIVE UuidFrom(_, _)
\* The groups of _UUID_RE, each followed by an optional hyphen.
UuidFrom(t, groups) ==
    IF groups = <<>> THEN t = <<>>
    ELSE LET n == Head(groups)
         IN  /\ Len(t) >= n
             /\ \A i \in 1..n : t[i] \in HexChars
             /\ LET rest == SubSeq(t, n + 1, Len(t))
                IN  IF Len(groups) > 1 /\ rest # <<>> /\ Head(rest) = "-"
                    THEN UuidFrom(Tail(rest), Tail(groups))
                    ELSE UuidFrom(rest, Tail(groups))

IsUuid(t) == UuidFrom(t, <<8, 4, 4, 4, 12>>)

_has_mixed_char_types(t) ==
    /\ \E i \in 1..Len(t) : t[i] \in UpperChars
    /\ \E i \in 1..Len(t) : t[i] \in LowerChars
    /\ \E i \in 1..Len(t) : t[i] \in DigitSet

\* round(entropy, 2), in hundredths.
Round2(e) == (e + 50) \div 100

\* The filters of the loop, in the order of the code.
Survives(token) ==
    LET token_lower == LowerText(token)
    IN  /\ ~\E p \in _KNOWN_PREFIXES : StartsWith(token, p)
        /\ ~HexOnly(token)
        /\ ~IsUuid(token)
        /\ ~\E ext \in _FILE_EXTENSIONS : Contains(token_lower, ext)
        /\ CountOf("/", token) < 2
        /\ CountOf(".", token) < 3
        /\ ~\E p \in _BENIGN_PREFIXES : StartsWith(token_lower, p)
        /\ ~\E sub \in _BENIGN_SUBSTRINGS : Contains(token_lower, sub)
        /\ _has_mixed_char_types(token)
        /\ _shannon_entropy(token) >= 40000

\* _CANDIDATE_RE.finditer(content): the runs of 20 characters or more.
CandidateMatches(content) ==
    SelectSeq(RunsFrom(content, 0, CandidateChars, CandidateChars),
              LAMBDA m : m.end - m.start >= 20)

\* A scan that keeps every occurrence of a token.
RECURSIVE EveryOccurrence(_, _, _)
EveryOccurrence(content, matches, seen) ==
    IF matches = <<>> THEN seen
    ELSE EveryOccurrence(content, Tail(matches),
            Append(seen, [token |-> Slice(content, Head(matches).start, Head(matches).end),
                          positions |-> <<Head(matches).start>>]))

RECURSIVE UniqueCandidates(_, _, _)
\* unique_candidates: the tokens in the order of their first occurrence,
\* each with its positions.
UniqueCandidates(content, matches, seen) ==
    IF matches = <<>> THEN seen
    ELSE LET m     == Head(matches)
             token == Slice(content, m.start, m.end)
             known == {k \in 1..Len(seen) : seen[k].token = token}
         IN  UniqueCandidates(content, Tail(matches),
                IF known = {}
                THEN Append(seen, [token |-> token, positions |-> <<m.start>>])
                ELSE [k \in 1..Len(seen) |->
                        IF k \in known
                        THEN [seen[k] EXCEPT !.positions = Append(@, m.start)]
                        ELSE seen[k]])

\* The context of the first occurrence, newlines replaced by spaces.
ContextOf(content, token, pos) ==
    LET ctx_start == IF pos - 40 > 0 THEN pos - 40 ELSE 0
        ctx_end   == IF pos + Len(token) + 40 < Len(content)
                     THEN pos + Len(token) + 40 ELSE Len(content)
        ctx       == Slice(content, ctx_start, ctx_end)
    IN  [i \in 1..Len(ctx) |-> IF ctx[i] = "\n" THEN " " ELSE ctx[i]]

RECURSIVE ResultsOf(_, _)
ResultsOf(content, candidates) ==
    IF candidates = <<>> THEN <<>>
    ELSE LET c == Head(candidates)
         IN  (IF Survives(c.token)
              THEN <<[match |-> c.token,
                      entropy |-> Round2(_shannon_entropy(c.token)),
                      context |-> ContextOf(content, c.token, c.positions[1])]>>
              ELSE <<>>)
             \o ResultsOf(content, Tail(candidates))

RECURSIVE InsertByEntropyDesc(_, _)
InsertByEntropyDesc(r, s) ==
    IF s = <<>> THEN <<r>>
    ELSE IF Head(s).entropy >= r.entropy
         THEN <<Head(s)>> \o InsertByEntropyDesc(r, Tail(s))
         ELSE <<r>> \o s

\* The results left in the order of the text.
KeepOrder(rs) == rs

RECURSIVE SortByEntropyDesc(_)
\* results.sort(key=entropy, reverse=True): stable.
SortByEntropyDesc(rs) ==
    IF rs = <<>> THEN <<>>
    ELSE InsertByEntropyDesc(rs[Len(rs)], SortByEntropyDesc(SubSeq(rs, 1, Len(rs) - 1)))

_scan_high_entropy_strings(content, max_results) ==
    IF content = <<>> THEN <<>>
    ELSE Slice(SortByEntropyDesc(
                  ResultsOf(content,
                            UniqueCandidates(content, CandidateMatches(content), <<>>))),
               0, max_results)

RECURSIVE JoinWords(_, _)
\* The words of a text, each followed by a separator.
JoinWords(words, seps) ==
    IF words = <<>> THEN <<>>
    ELSE Head(words) \o <<Head(seps)>> \o JoinWords(Tail(words), Tail(seps))

InitEntropy ==
    /\ IdleCore
    /\ workers = NoResult
    /\ redaction = NoResult
    /\ custom = NoResult
    /\ jobs = NoResult
    /\ \E n \in 0..MaxWords :
          \E words \in [1..n -> Vocabulary], sep \in {" ", "\n"},
             max_results \in 0..MaxResults :
             entropy = [ content |-> JoinWords(words, [i \in 1..n |-> sep]),
                         max_results |-> max_results,
                         result |-> NoResult ]

ScanHighEntropyStrings ==
    /\ entropy.result = NoResult
    /\ entropy' = [entropy EXCEPT
          !.result = [results |->
                _scan_high_entropy_strings(entropy.content, entropy.max_results)]]
    /\ UNCHANGED <<coreVars, workers, redaction, custom, jobs>>

NextEntropy == ScanHighEntropyStrings

SpecEntropy == InitEntropy /\ [][NextEntropy]_vars

(***************************************************************************)
(* Properties of the entropy scanner                                       *)
(***************************************************************************)

\* The token stands in the text between characters no candidate holds.
OccursAsToken(content, token) ==
    \E i \in 1..(Len(content) - Len(token) + 1) :
        /\ SubSeq(content, i, i + Len(token) - 1) = token
        /\ (i = 1 \/ content[i - 1] \notin CandidateChars)
        /\ (i + Len(token) > Len(content) \/ content[i + Len(token)] \notin CandidateChars)

\* The distinct values of the text that pass every filter.
SurvivorsIn(content) ==
    {token \in Vocabulary :
        Len(token) >= 20 /\ OccursAsToken(content, token) /\ Survives(token)}

ScanDone == entropy # NoResult /\ entropy.result # NoResult

GoodResults(content, max_results, results) ==
    LET survivors == SurvivorsIn(content)
        matches   == {results[i].match : i \in 1..Len(results)}
    IN  /\ \A i, j \in 1..Len(results) : i # j => results[i].match # results[j].match
        /\ matches \subseteq survivors
        /\ \A i, j \in 1..Len(results) : i < j => results[i].entropy >= results[j].entropy
        /\ Len(results) <= max_results
        /\ Len(results) = IF Cardinality(survivors) < max_results
                          THEN Cardinality(survivors) ELSE max_results
        /\ \A token \in survivors \ matches :
              \A i \in 1..Len(results) :
                  results[i].entropy >= Round2(_shannon_entropy(token))

ScanStep == entropy # NoResult /\ entropy.result = NoResult /\ entropy'.result # NoResult

\* C26: a scan returns each surviving value of the text once at most, in
\* the order of descending entropy, max_results entries at most (those of
\* highest entropy), and leaves the scanned text as it was.
C26_EntropyResults ==
    [][ScanStep => /\ entropy'.content = entropy.content
                   /\ GoodResults(entropy.content, entropy.max_results,
                                  entropy'.result.results)]_vars

\* A text in which a value occurs twice and a later value has a higher
\* entropy, scanned with a maximum below the number of surviving values.
C26_Witness ==
    /\ ScanDone
    /\ StartsWith(entropy.content, WordRandom \o <<" ">> \o WordRandom)
    /\ OccursAsToken(entropy.content, WordRandomer)
    /\ entropy.max_results = 1
    /\ Len(entropy.result.results) = 1
    /\ entropy.result.results[1].match = WordRandomer

(***************************************************************************)
(* tui/jobs.py: JobManager                                                 *)
(*                                                                         *)
(* One thread of the interface submits and cancels; a thread of the        *)
(* executor runs the jobs (max_workers=1). What is done under self._lock   *)
(* is one step, together with the event that is put after it.              *)
(***************************************************************************)

JobIds == {"job-a", "job-b"}

UnknownJobId == "job-x"

WorkerThreads == {1}

MaxCancels == 2

NoJob == [absent |-> TRUE]

TerminalStatuses == {"success", "error", "cancelled"}

NewJobManager ==
    [ _jobs |-> [j \in JobIds |-> NoJob],
      _futures |-> [j \in JobIds |-> FALSE],
      _cancel_events |-> [j \in JobIds |-> "absent"],
      _events |-> <<>>,
      future |-> [j \in JobIds |-> "none"],
      work_queue |-> <<>> ]

\* A cancel that does not look at the status of the job.
CancelWhateverTheStatus(m, job_id) ==
    IF job_id \notin JobIds \/ m._jobs[job_id] = NoJob \/ ~m._futures[job_id]
          \/ m._cancel_events[job_id] = "absent"
    THEN [m |-> m, returned |-> FALSE]
    ELSE [m |-> [m EXCEPT
                   !._cancel_events[job_id] = "set",
                   !._jobs[job_id] = [@ EXCEPT !.cancel_requested = TRUE,
                                               !.message = "cancellation requested"],
                   !._events = Append(@, [job_id |-> job_id, kind |-> "cancelling"])],
          returned |-> TRUE]

\* JobManager.cancel, all of it under the lock.
cancel(m, job_id) ==
    IF job_id \notin JobIds \/ m._jobs[job_id] = NoJob \/ ~m._futures[job_id]
          \/ m._cancel_events[job_id] = "absent"
    THEN [m |-> m, returned |-> FALSE]
    ELSE IF m._jobs[job_id].status \in TerminalStatuses
    THEN [m |-> m, returned |-> FALSE]
    ELSE IF m.future[job_id] \in {"pending", "cancelled"}
    THEN [m |-> [m EXCEPT
                   !.future[job_id] = "cancelled",
                   !._jobs[job_id] = [@ EXCEPT !.status = "cancelled",
                                               !.cancel_requested = TRUE,
                                               !.finished = TRUE,
                                               !.message = "cancelled before start"],
                   !._events = Append(@, [job_id |-> job_id, kind |-> "cancelled"])],
          returned |-> TRUE]
    ELSE [m |-> [m EXCEPT
                   !._cancel_events[job_id] = "set",
                   !._jobs[job_id] = [@ EXCEPT !.cancel_requested = TRUE,
                                               !.message = "cancellation requested"],
                   !._events = Append(@, [job_id |-> job_id, kind |-> "cancelling"])],
          returned |-> TRUE]

InitJobs ==
    /\ IdleCore
    /\ workers = NoResult
    /\ redaction = NoResult
    /\ custom = NoResult
    /\ entropy = NoResult
    /\ jobs = [ manager |-> NewJobManager,
                submitting |-> None,
                worker |-> [w \in WorkerThreads |-> [job |-> None, pc |-> "idle"]],
                cancels |-> 0,
                last |-> NoResult,
                accepted |-> {} ]

OtherVarsOfJobs == <<coreVars, workers, redaction, custom, entropy>>

\* submit, first block under the lock: the job and its event are stored.
SubmitStoreJob ==
    /\ jobs.submitting = None
    /\ \E j \in JobIds :
          /\ jobs.manager._jobs[j] = NoJob
          /\ jobs' = [jobs EXCEPT
                !.manager._jobs[j] = [status |-> "queued", cancel_requested |-> FALSE,
                                      started |-> FALSE, finished |-> FALSE,
                                      progress |-> 0, message |-> "queued"],
                !.manager._cancel_events[j] = "clear",
                !.manager._events = Append(@, [job_id |-> j, kind |-> "queued"]),
                !.submitting = j]
    /\ UNCHANGED OtherVarsOfJobs

\* submit: self._executor.submit(self._run_job, job_id, fn)
SubmitToExecutor ==
    /\ jobs.submitting # None
    /\ jobs.manager.future[jobs.submitting] = "none"
    /\ jobs' = [jobs EXCEPT
          !.manager.future[jobs.submitting] = "pending",
          !.manager.work_queue = Append(@, jobs.submitting)]
    /\ UNCHANGED OtherVarsOfJobs

\* submit, second block under the lock: the future is stored; submit returns.
SubmitStoreFuture ==
    /\ jobs.submitting # None
    /\ jobs.manager.future[jobs.submitting] # "none"
    /\ jobs' = [jobs EXCEPT
          !.manager._futures[jobs.submitting] = TRUE,
          !.submitting = None]
    /\ UNCHANGED OtherVarsOfJobs

\* The interface calls cancel(job_id).
Cancel ==
    /\ jobs.submitting = None
    /\ jobs.cancels < MaxCancels
    /\ \E id \in JobIds \cup {UnknownJobId} :
          LET r == cancel(jobs.manager, id)
          IN  jobs' = [jobs EXCEPT
                 !.manager = r.m,
                 !.cancels = @ + 1,
                 !.last = [job_id |-> id, before |-> jobs.manager, after |-> r.m,
                           returned |-> r.returned],
                 !.accepted = IF r.returned THEN @ \cup {id} ELSE @]
    /\ UNCHANGED OtherVarsOfJobs

\* A thread of the executor takes the next work item; a cancelled future is
\* dropped, any other is set running.
TakeWorkItem(w) ==
    /\ jobs.worker[w].pc = "idle"
    /\ jobs.manager.work_queue # <<>>
    /\ LET j == Head(jobs.manager.work_queue)
       IN  IF jobs.manager.future[j] = "cancelled"
           THEN jobs' = [jobs EXCEPT !.manager.work_queue = Tail(@)]
           ELSE jobs' = [jobs EXCEPT
                   !.manager.work_queue = Tail(@),
                   !.manager.future[j] = "running",
                   !.worker[w] = [job |-> j, pc |-> "begin"]]
    /\ UNCHANGED OtherVarsOfJobs

\* _run_job, first block under the lock: status running.
MarkRunning(w) ==
    /\ jobs.worker[w].pc = "begin"
    /\ LET j == jobs.worker[w].job
       IN  jobs' = [jobs EXCEPT
              !.manager._jobs[j] = [@ EXCEPT !.status = "running", !.started = TRUE,
                                             !.message = "running"],
              !.manager._events = Append(@, [job_id |-> j, kind |-> "started"]),
              !.worker[w].pc = "fn"]
    /\ UNCHANGED OtherVarsOfJobs

\* The callable reports progress: _update_progress.
ReportProgress(w) ==
    /\ jobs.worker[w].pc = "fn"
    /\ LET j == jobs.worker[w].job
       IN  jobs' = [jobs EXCEPT
              !.manager._jobs[j] = [@ EXCEPT !.progress = 100, !.message = "done"],
              !.manager._events = Append(@, [job_id |-> j, kind |-> "progress"]),
              !.worker[w].pc = "reported"]
    /\ UNCHANGED OtherVarsOfJobs

\* The callable returns.
FnReturns(w) ==
    /\ jobs.worker[w].pc \in {"fn", "reported"}
    /\ jobs' = [jobs EXCEPT !.worker[w].pc = "returned"]
    /\ UNCHANGED OtherVarsOfJobs

\* The callable raises an Exception.
FnRaises(w) ==
    /\ jobs.worker[w].pc \in {"fn", "reported"}
    /\ jobs' = [jobs EXCEPT !.worker[w].pc = "raised"]
    /\ UNCHANGED OtherVarsOfJobs

\* if cancel_event.is_set(): read outside the lock.
CheckCancelEvent(w) ==
    /\ jobs.worker[w].pc = "returned"
    /\ jobs' = [jobs EXCEPT !.worker[w].pc =
          IF jobs.manager._cancel_events[jobs.worker[w].job] = "set"
          THEN "saw_cancel" ELSE "saw_none"]
    /\ UNCHANGED OtherVarsOfJobs

\* The terminal status is stored under the lock and the future finishes.
Finish(w) ==
    /\ jobs.worker[w].pc \in {"saw_cancel", "saw_none", "raised"}
    /\ LET j  == jobs.worker[w].job
           pc == jobs.worker[w].pc
           status == CASE pc = "saw_cancel" -> "cancelled"
                       [] pc = "saw_none" -> "success"
                       [] OTHER -> "error"
       IN  jobs' = [jobs EXCEPT
              !.manager._jobs[j] =
                 [@ EXCEPT !.status = status, !.finished = TRUE,
                           !.progress = IF pc = "saw_none" THEN 100 ELSE @,
                           !.message = CASE pc = "saw_cancel" -> "cancelled"
                                         [] pc = "saw_none" -> "completed"
                                         [] OTHER -> "failed"],
              !.manager._events = Append(@, [job_id |-> j, kind |-> status]),
              !.manager.future[j] = "finished",
              !.worker[w] = [job |-> None, pc |-> "idle"]]
    /\ UNCHANGED OtherVarsOfJobs

WorkerStep(w) ==
    \/ TakeWorkItem(w)
    \/ MarkRunning(w)
    \/ FnReturns(w)
    \/ FnRaises(w)
    \/ CheckCancelEvent(w)
    \/ Finish(w)

NextJobs ==
    \/ SubmitStoreJob
    \/ SubmitToExecutor
    \/ SubmitStoreFuture
    \/ Cancel
    \/ \E w \in WorkerThreads : ReportProgress(w)
    \/ \E w \in WorkerThreads : TakeWorkItem(w)
    \/ \E w \in WorkerThreads : MarkRunning(w)
    \/ \E w \in WorkerThreads : FnReturns(w)
    \/ \E w \in WorkerThreads : FnRaises(w)
    \/ \E w \in WorkerThreads : CheckCancelEvent(w)
    \/ \E w \in WorkerThreads : Finish(w)

SpecJobs == InitJobs /\ [][NextJobs]_vars

\* The threads of the executor are scheduled, the interface finishes a
\* submit it began, and the callable ends.
SpecJobsLive ==
    /\ SpecJobs
    /\ \A w \in WorkerThreads : WF_vars(WorkerStep(w))
    /\ WF_vars(SubmitToExecutor)
    /\ WF_vars(SubmitStoreFuture)

(***************************************************************************)
(* Properties of JobManager.cancel                                         *)
(***************************************************************************)

StatusOf(m, id) == IF id \in JobIds /\ m._jobs[id] # NoJob THEN m._jobs[id].status ELSE "unknown"

\* What the last call of cancel returned, and that a call that returned
\* False changed nothing.
CancelAnswers ==
    (jobs # NoResult /\ jobs.last # NoResult) =>
        /\ jobs.last.returned
              <=> StatusOf(jobs.last.before, jobs.last.job_id) \in {"queued", "running"}
        /\ ~jobs.last.returned => jobs.last.after = jobs.last.before

Terminal(j) == jobs # NoResult /\ StatusOf(jobs.manager, j) \in TerminalStatuses

Accepted(j) == jobs # NoResult /\ j \in jobs.accepted

\* C27: cancel returns True exactly for a job that is queued or running, and
\* such a job reaches a terminal status afterwards; for an unknown job or a
\* job in a terminal status it returns False and changes nothing.
C27_CancelBestEffort ==
    /\ []CancelAnswers
    /\ \A j \in JobIds : Accepted(j) ~> Terminal(j)

\* A cancel accepted for a running job that then ended, after a cancel
\* refused for a job in a terminal status.
C27_Witness ==
    /\ jobs # NoResult
    /\ jobs.last # NoResult
    /\ ~jobs.last.returned
    /\ StatusOf(jobs.last.before, jobs.last.job_id) \in TerminalStatuses
    /\ jobs.last.job_id \in jobs.accepted
    /\ \E i \in 1..Len(jobs.manager._events) :
          /\ jobs.manager._events[i].kind = "cancelling"
          /\ jobs.manager._events[i].job_id = jobs.last.job_id

====
